---- MODULE Spec2Model ----
(***************************************************************************)
(* Model of the wiki-to-Markdown conversion engine of support-tools:       *)
(*   src/wiki_to_md/impl/converter.py          (class Converter)           *)
(*   src/wiki_to_md/impl/formatting_handler.py (class FormattingHandler)   *)
(*   src/wiki_to_md/impl/constants.py          (rule tables)               *)
(*                                                                         *)
(* The document is not stored: each action draws the next line, or the     *)
(* next match of the rule regex inside the current line, from a bounded    *)
(* set, so every behaviour is the conversion of one document.              *)
(*                                                                         *)
(* Text is a sequence of chunks (strings); a chunk is the unit on which    *)
(* strip(), replace() and escaping act.  A plugin id is a pair             *)
(* <<namespace, name>>, <<"", "b">> being b and <<"wiki", "comment">>      *)
(* being wiki:comment.                                                     *)
(*                                                                         *)
(* The procedures of the two classes are operators from a machine record   *)
(*   m = [c |-> Converter fields, f |-> FormattingHandler fields,          *)
(*        log |-> events of this step, w |-> characters written to the     *)
(*        output stream in this step, err |-> an exception was raised]     *)
(* to a machine record.  An exception leaves the state as it was when it   *)
(* was raised and skips everything after it.                               *)
(*                                                                         *)
(* The issue exporter of the same repository is modelled beside it:        *)
(*   src/googlecode-issues-exporter/github_services.py (GitHubService)     *)
(*   src/googlecode-issues-exporter/issues.py          (IssueExporter)     *)
(* in the variables http and exporter, which the conversion leaves alone.  *)
(***************************************************************************)
EXTENDS Integers, Sequences, FiniteSets, TLC

VARIABLES
  conv,     \* the Converter object's fields set up by _ProcessBody
  fmt,      \* the FormattingHandler object's fields
  pc,       \* position of the driver: "pragmas", "main", "body", "dispatch",
            \* "match", "eol", "done", "returned", "crashed"
  input_lines, \* Convert's local input_lines, where the document is fixed
               \* beforehand (SpecConvert); <<>> where each line is drawn
               \* when the body reads it
  input_line,  \* Convert's local input_line, the number of the line to read
  consumed,    \* the numbers of the lines passed over so far, in order
  ctx,      \* stack of the recursive _ProcessMatch calls in progress (Heading, TableCell)
  first_line, \* _ProcessBody's local first_line
  events,   \* what the last step did: handler calls, warnings, writes
  borders,  \* HandleTableCellBorder calls since the current line began
  header_cells, \* number of columns the header row of the current table had
  row_ends, \* HandleTableRowEnd calls since the current line began
  headers,  \* HandleTableHeader calls since the current table began
  scenario_line, \* lines read so far, while they are the first lines of NUMERIC_LIST; else -1
  list_closes, \* HandleListClose calls so far, while scenario_line is not -1
  html_tags, \* the HTML tags written so far by HandleHtmlOpen and not yet
             \* closed by HandleHtmlClose, the last written last
  http,     \* the call of GitHubService._PerformHttpRequest in progress
  exporter, \* the IssueExporter object, its input, and the calls it has made
            \* of the issue service
  budget    \* steps the rest of the document may take (documents are finite)

vars == <<conv, fmt, pc, input_lines, input_line, consumed, ctx, first_line,
          events, borders, header_cells, row_ends, headers, scenario_line,
          list_closes, html_tags, http, exporter, budget>>

(***************************************************************************)
(* Bounds of the model.                                                    *)
(***************************************************************************)
MaxSteps == 6        \* steps of a document of Spec
MaxPluginSteps == 7  \* steps of a document of SpecPlugin
MaxTableSteps == 11  \* steps of a document of SpecTable
MaxListSteps == 6    \* steps of a document of SpecList
MaxReuseSteps == 6   \* steps of the documents of SpecReuse, taken together
MaxLines == 4        \* lines of a document of SpecConvert
MaxInlineSteps == 5  \* steps of a document of SpecInline
MaxEmbedSteps == 6   \* steps of a document of SpecEmbed
MaxCode == 4         \* characters of an inline code
MaxPlainLines == 3   \* lines of a document of SpecPlain
MaxIndent == 2       \* deepest indentation of a line
MaxDepth == 2        \* deepest nesting of code fences and of plugins
MaxHttpSteps == 11   \* steps of the HTTP calls of SpecHttp, taken together
MaxIssues == 2       \* issues of the export file of SpecExport

(***************************************************************************)
(* Small helpers on sequences and text.                                    *)
(***************************************************************************)
Last(s) == s[Len(s)]
Front(s) == SubSeq(s, 1, Len(s) - 1)

RECURSIVE TextLen(_)
TextLen(t) == IF t = <<>> THEN 0 ELSE Len(Head(t)) + TextLen(Tail(t))

MapText(t, F(_)) == [i \in 1..Len(t) |-> F(t[i])]

IsSpaceChunk(ch) == ch \in {" ", "\n", "  "}

\* str.strip() on a text: whitespace chunks are removed from both ends.
RECURSIVE LStrip(_)
LStrip(t) == IF t # <<>> /\ IsSpaceChunk(Head(t)) THEN LStrip(Tail(t)) ELSE t
RECURSIVE RStrip(_)
RStrip(t) == IF t # <<>> /\ IsSpaceChunk(Last(t)) THEN RStrip(Front(t)) ELSE t
Strip(t) == RStrip(LStrip(t))

Repeat(ch, n) == [i \in 1..n |-> ch]

(***************************************************************************)
(* The machine record threaded through the procedures.                     *)
(***************************************************************************)
OnOk(m, r) == IF m.err THEN m ELSE r
\* m; K: the statements K run on the machine m leaves, unless m raised.
Then(m, K(_)) == IF m.err THEN m ELSE K(m)
Emit(m, e) == [m EXCEPT !.log = Append(@, e)]
Raise(m, what) == [Emit(m, [ev |-> "Exception", what |-> what]) EXCEPT !.err = TRUE]
\* return value: the value is left in m.ret for the caller.
ReturnValue(m, rule, value) ==
  Emit([m EXCEPT !.ret = value], [ev |-> "Return", rule |-> rule, value |-> value])
\* self._warning_method(input_line, message)
Warn(m, what) == OnOk(m, Emit(m, [ev |-> "Warning", what |-> what]))

(***************************************************************************)
(* FormattingHandler (formatting_handler.py).                              *)
(***************************************************************************)
\* ItemTag "" is None.
HTML_LIST_TAGS ==
  ("Numeric list"  :> [ListTag |-> "ol", ItemTag |-> "li"]) @@
  ("Bulleted list" :> [ListTag |-> "ul", ItemTag |-> "li"]) @@
  ("Blockquote"    :> [ListTag |-> "blockquote", ItemTag |-> ""])

HTML_FORMAT_TAGS ==
  [ Bold          |-> [Markdown |-> "**", HTML |-> "b"],
    Italic        |-> [Markdown |-> "_",  HTML |-> "i"],
    Strikethrough |-> [Markdown |-> "~~", HTML |-> "del"] ]

SINGLE_INDENTATION == "  "

FmtInit ==
  [ last_blockquote_indent |-> 0,
    format_buffer    |-> <<>>,
    in_html          |-> 0,
    in_code_block    |-> FALSE,
    has_written_text |-> FALSE,
    list_tags        |-> <<>>,
    table_status     |-> "None",
    in_comment       |-> FALSE,
    symmetric_headers |-> FALSE,
    project          |-> "proj",
    issue_map        |-> [x \in {} |-> <<>>] ]

\* cgi.escape(text): & < > become entities.
CgiEscape(ch) ==
  CASE ch = "<"  -> "&lt;"
    [] ch = "</" -> "&lt;/"
    [] ch = ">"  -> "&gt;"
    [] ch = " />" -> " /&gt;"
    [] ch = "&"  -> "&amp;"
    [] OTHER     -> ch
\* text.replace("\n", "<br>\n")
Br(ch) == IF ch = "\n" THEN "<br>\n" ELSE ch
\* text.replace("'", "\"")
Quote(ch) == IF ch = "'" THEN "\"" ELSE ch

\* The rewriting _Write does before the text goes out.
EscapeForHtml(f, text) ==
  IF ~f.in_comment /\ f.in_html # 0 /\ f.in_code_block THEN MapText(text, CgiEscape) ELSE text
BreakLines(f, text) ==
  IF ~f.in_comment /\ f.in_html # 0 /\ (f.in_code_block \/ f.has_written_text)
  THEN MapText(text, Br) ELSE text
\* _Write, were it to leave the quotes of a comment as they are.
QuoteNowhere(f, text) == text
QuoteForComment(f, text) == IF f.in_comment THEN MapText(text, Quote) ELSE text
WriteTransform(f, text) == QuoteForComment(f, BreakLines(f, EscapeForHtml(f, text)))

\* Put, were it to send everything to the stream.
PutToStream(m, t) ==
  Emit([m EXCEPT !.w = @ + TextLen(t)], [ev |-> "Write", to |-> "stream", text |-> t])

\* The end of _Write: into the innermost format buffer, else to the stream.
Put(m, t) ==
  IF m.f.format_buffer # <<>>
  THEN Emit([m EXCEPT !.f.format_buffer[Len(m.f.format_buffer)].text = @ \o t],
            [ev |-> "Write", to |-> "buffer", text |-> t])
  ELSE Emit([m EXCEPT !.w = @ + TextLen(t)],
            [ev |-> "Write", to |-> "stream", text |-> t])

_Write(m, text) ==
  OnOk(m, IF TextLen(text) = 0 THEN m ELSE Put(m, WriteTransform(m.f, text)))

\* _SerializeHtmlParams: one chunk " name='value'" per parameter.
RECURSIVE _SerializeHtmlParams(_)
_SerializeHtmlParams(params) ==
  IF DOMAIN params = {} THEN <<>>
  ELSE LET name == CHOOSE x \in DOMAIN params : TRUE
       IN <<" " \o name \o "='" \o params[name] \o "'">>
            \o _SerializeHtmlParams([x \in DOMAIN params \ {name} |-> params[x]])

NoParams == [x \in {} |-> ""]

WrittenText(m, b) == [m EXCEPT !.f.has_written_text = b]

HandleHtmlOpen(m, html_tag, params, has_end) ==
  OnOk(m,
    Then(_Write(Emit(IF has_end THEN m ELSE [m EXCEPT !.f.in_html = @ + 1],
                     [ev |-> "HtmlOpen", tag |-> html_tag, has_end |-> has_end]),
                <<"<", html_tag>> \o _SerializeHtmlParams(params)
                  \o <<IF has_end THEN " />" ELSE ">">>),
         LAMBDA x : WrittenText(x, FALSE)))

HandleHtmlClose(m, html_tag) ==
  OnOk(m,
    Then(_Write(Emit(m, [ev |-> "HtmlClose", tag |-> html_tag]), <<"</", html_tag, ">">>),
         LAMBDA x : [x EXCEPT !.f.in_html = @ - 1, !.f.has_written_text = FALSE]))

_PrintHtmlWarning(m, kind) == Warn(m, "markup within HTML: " \o kind)

HandleText(m, text) ==
  OnOk(m, Then(_Write(Emit(m, [ev |-> "Text", text |-> text]), text),
               LAMBDA x : WrittenText(x, TRUE)))

\* _Escape: "*" and "_" get a backslash, the angle brackets of a plugin-shaped
\* piece of text (an opening chunk, a body, ">") become entities, and a
\* trailing "  \n" loses its two spaces.
\* _Escape, were it to leave every character as it is.
KeepChunkAt(t, i) == t[i]
EscapeChunkAt(t, i) ==
  CASE t[i] = "*" -> "\\*"
    [] t[i] = "_" -> "\\_"
    [] t[i] \in {"<", "</"} /\ i + 2 <= Len(t) /\ t[i + 2] = ">" -> CgiEscape(t[i])
    [] t[i] = ">" /\ i >= 3 /\ t[i - 2] \in {"<", "</"} -> CgiEscape(t[i])
    [] OTHER -> t[i]

RECURSIVE StripLineBreakSpaces(_)
StripLineBreakSpaces(t) ==
  IF Len(t) >= 2 /\ t[Len(t)] = "\n" /\ t[Len(t) - 1] = "  "
  THEN StripLineBreakSpaces(SubSeq(t, 1, Len(t) - 2) \o <<"\n">>)
  ELSE t

_Escape(text) == StripLineBreakSpaces([i \in 1..Len(text) |-> EscapeChunkAt(text, i)])

HandleEscapedText(m, text) ==
  OnOk(m, HandleText(Emit(m, [ev |-> "EscapedText", text |-> text]),
                     IF m.f.in_html # 0 THEN text ELSE _Escape(text)))

\* None, where a description may be None: no text of a document is this one.
None == <<"<None>">>
RECURSIVE Flat(_)
Flat(t) == IF t = <<>> THEN "" ELSE Head(t) \o Flat(Tail(t))

\* A URL is written with its schema as the first chunk and its extension, if
\* it has one, as the last.
_GFM_AUTO_URL_SCHEMAS == {"http://", "https://"}
_IMAGE_URL_SCHEMAS == {"http://", "https://", "ftp://"}
_IMAGE_EXTENSIONS == {".png", ".gif", ".jpg", ".jpeg", ".svg"}
\* description and ...: None and the empty string are false.
IsTrue(description) == description # None /\ description # <<>>
IsImage(target) == target # <<>> /\ Last(target) \in _IMAGE_EXTENSIONS
IsImageDescription(description) ==
  /\ IsTrue(description)
  /\ Head(description) \in _IMAGE_URL_SCHEMAS
  /\ Last(description) \in _IMAGE_EXTENSIONS

\* HandleLink, lines 514-542: within HTML.
HandleLinkHtml(m, target, description) ==
  IF IsImage(target) /\ ~IsTrue(description)
  THEN HandleHtmlOpen(m, "img", [x \in {"src"} |-> Flat(target)], TRUE)
  ELSE Then(Then(HandleHtmlOpen(m, "a", [x \in {"href"} |-> Flat(target)], FALSE),
                 LAMBDA x :
                   IF IsImageDescription(description)
                   THEN HandleHtmlOpen(x, "img", [y \in {"src"} |-> Flat(description)], TRUE)
                   ELSE _Write(x, MapText(IF IsTrue(description) THEN description
                                          ELSE target, CgiEscape))),
            LAMBDA x : HandleHtmlClose(x, "a"))

\* HandleLink, lines 548-567: the text between the square brackets, and
\* whether it stands for an image.
LinkText(target, description) ==
  IF IsImageDescription(description) THEN <<"![](">> \o description \o <<")">>
  ELSE IF IsTrue(description) THEN _Escape(description)
  ELSE target
LinkTextIsImage(target, description) ==
  IF IsTrue(description) THEN IsImageDescription(description) ELSE IsImage(target)
LinkPrefix(target, description) ==
  IF IsImage(target) /\ LinkTextIsImage(target, description) THEN <<"!">> ELSE <<>>

HandleLinkMarkdown(m, target, description) ==
  IF description = None /\ Head(target) \in _GFM_AUTO_URL_SCHEMAS /\ ~IsImage(target)
  THEN _Write(m, target)
  ELSE _Write(m, LinkPrefix(target, description) \o <<"[">>
                   \o LinkText(target, description) \o <<"](">> \o target \o <<")">>)

HandleLink(m, target, description) ==
  OnOk(m,
    IF m.f.in_html # 0
    THEN Then(_PrintHtmlWarning(Emit(m, [ev |-> "Link", target |-> target,
                                         description |-> description]), "Link"),
              LAMBDA x : HandleLinkHtml(x, target, description))
    ELSE HandleLinkMarkdown(Emit(m, [ev |-> "Link", target |-> target,
                                     description |-> description]),
                            target, description))

\* migrated_issue_url.rsplit("/", 1)[1]: the chunks after the last "/"; the
\* schemas are the only chunks of a URL that end with one.
EndsWithSlash(ch) == ch \in {"/"} \cup _IMAGE_URL_SCHEMAS
HasSlash(url) == \E i \in 1..Len(url) : EndsWithSlash(url[i])
AfterLastSlash(url) ==
  SubSeq(url, 1 + (CHOOSE i \in 1..Len(url) :
                     /\ EndsWithSlash(url[i])
                     /\ \A j \in (i+1)..Len(url) : ~EndsWithSlash(url[j])), Len(url))

IssueInMap(f, issue) == issue \in DOMAIN f.issue_map
OldIssueLink(project, issue) ==
  <<"https://", "code.google.com/p/", project, "/issues/detail?id=">> \o issue
OldRevisionLink(project, revision) ==
  <<"https://", "code.google.com/p/", project, "/source/detail?r=">> \o revision
OnGoogleCode(prefix, number) == prefix \o number \o <<" (on Google Code)">>

\* HandleIssue, lines 594-621: the first part of the instructions.
IssueInstructions(f, issue) ==
  IF IssueInMap(f, issue) THEN "linked to the migrated issue"
  ELSE IF DOMAIN f.issue_map # {} THEN "not found in the issue migration map"
  ELSE "no issue migration map was specified"

\* HandleIssue, were it to go to the legacy tracker without a look at the map.
IssueRenderingOldLink(m, prefix, issue) ==
  IF m.f.project # ""
  THEN HandleLink(m, OldIssueLink(m.f.project, issue), prefix \o issue)
  ELSE _Write(m, OnGoogleCode(prefix, issue))

\* HandleIssue, lines 594-601 and 624-650: what is written for the issue.
IssueRendering(m, prefix, issue) ==
  IF IssueInMap(m.f, issue)
  THEN IF HasSlash(m.f.issue_map[issue])
       THEN HandleLink(m, m.f.issue_map[issue],
                       prefix \o AfterLastSlash(m.f.issue_map[issue]))
       ELSE Raise(m, "IndexError")
  ELSE IF m.f.project # ""
  THEN HandleLink(m, OldIssueLink(m.f.project, issue), prefix \o issue)
  ELSE _Write(m, OnGoogleCode(prefix, issue))

HandleIssue(m, prefix, issue) ==
  OnOk(m,
    Then(IssueRendering(Emit(m, [ev |-> "Issue", prefix |-> prefix, issue |-> issue]),
                        prefix, issue),
         LAMBDA x : Warn(x, "Issue was auto-linked: " \o IssueInstructions(m.f, issue))))

HandleRevision(m, prefix, revision) ==
  OnOk(m,
    Then(IF m.f.project # ""
         THEN HandleLink(Emit(m, [ev |-> "Revision", prefix |-> prefix,
                                  revision |-> revision]),
                         OldRevisionLink(m.f.project, revision), prefix \o revision)
         ELSE _Write(Emit(m, [ev |-> "Revision", prefix |-> prefix,
                              revision |-> revision]),
                     OnGoogleCode(prefix, revision)),
         LAMBDA x : Warn(x, "Revision was auto-linked")))

\* The back-tick, written "^" here.
Tick == "^"
\* HandleInlineCode, were it to count all the ticks of the code.
CountTicks(code) == Cardinality({ i \in 1..Len(code) : code[i] = Tick })
\* HandleInlineCode, lines 384-391: the loop over the characters of the code,
\* one character a chunk.
RECURSIVE TickLoop(_, _, _)
TickLoop(code, consecutive_ticks, max_consecutive_ticks) ==
  IF code = <<>> THEN max_consecutive_ticks
  ELSE IF Head(code) = Tick
       THEN TickLoop(Tail(code), consecutive_ticks + 1,
                     IF consecutive_ticks + 1 > max_consecutive_ticks
                     THEN consecutive_ticks + 1 ELSE max_consecutive_ticks)
       ELSE TickLoop(Tail(code), 0, max_consecutive_ticks)
MaxConsecutiveTicks(code) == TickLoop(code, 0, 0)

HandleInlineCode(m, code) ==
  OnOk(m,
    IF m.f.in_html # 0
    THEN Then(Then(HandleHtmlOpen(Emit(m, [ev |-> "InlineCode", code |-> code]),
                                  "code", NoParams, FALSE),
                   LAMBDA x : HandleText(x, MapText(code, CgiEscape))),
              LAMBDA x : HandleHtmlClose(x, "code"))
    ELSE _Write(Emit(m, [ev |-> "InlineCode", code |-> code]),
                Repeat(Tick, MaxConsecutiveTicks(code) + 1) \o <<" ">> \o code
                  \o <<" ">> \o Repeat(Tick, MaxConsecutiveTicks(code) + 1)))

HeaderTag(header_level) ==
  CASE header_level = 1 -> "h1" [] header_level = 2 -> "h2"
    [] header_level = 3 -> "h3" [] header_level = 4 -> "h4"
    [] header_level = 5 -> "h5" [] OTHER -> "h6"

HandleHeaderOpen(m, header_level) ==
  OnOk(m,
    IF m.f.in_html # 0
    THEN HandleHtmlOpen(Emit(m, [ev |-> "HeaderOpen", level |-> header_level]),
                        HeaderTag(header_level), NoParams, FALSE)
    ELSE _Write(Emit(m, [ev |-> "HeaderOpen", level |-> header_level]),
                Repeat("#", header_level) \o <<" ">>))

HandleHeaderClose(m, header_level) ==
  OnOk(m,
    IF m.f.in_html # 0
    THEN HandleHtmlClose(Emit(m, [ev |-> "HeaderClose", level |-> header_level]),
                         HeaderTag(header_level))
    ELSE _Write(Emit(m, [ev |-> "HeaderClose", level |-> header_level]),
                IF m.f.symmetric_headers
                THEN <<" ">> \o Repeat("#", header_level) ELSE <<>>))

HandleHRule(m) ==
  OnOk(m,
    IF m.f.in_html # 0
    THEN HandleHtmlOpen(Emit(m, [ev |-> "HRule"]), "hr", NoParams, TRUE)
    ELSE _Write(Emit(m, [ev |-> "HRule"]), <<"\n", "---", "\n">>))

\* Three back-ticks; a TLA+ string cannot hold a back-tick, "^" stands for it.
CodeFence == "^^^"

InCodeBlock(m, b) == [m EXCEPT !.f.in_code_block = b]

\* specified_language is "" for None.
HandleCodeBlockOpen(m, specified_language) ==
  OnOk(m,
    Then(IF m.f.in_html # 0
         THEN HandleHtmlOpen(
                HandleHtmlOpen(_PrintHtmlWarning(Emit(m, [ev |-> "CodeBlockOpen"]), "Code"),
                               "pre", NoParams, FALSE),
                "code", NoParams, FALSE)
         ELSE _Write(Emit(m, [ev |-> "CodeBlockOpen"]),
                     <<CodeFence, specified_language, "\n">>),
         LAMBDA x : InCodeBlock(x, TRUE)))

HandleCodeBlockClose(m) ==
  OnOk(m,
    IF m.f.in_html # 0
    THEN HandleHtmlClose(
           HandleHtmlClose(InCodeBlock(Emit(m, [ev |-> "CodeBlockClose"]), FALSE), "code"),
           "pre")
    ELSE _Write(InCodeBlock(Emit(m, [ev |-> "CodeBlockClose"]), FALSE), <<CodeFence>>))

HandleParagraphBreak(m) ==
  OnOk(m, _Write(Emit(m, [ev |-> "ParagraphBreak"]), <<"\n">>))

\* HandleBoldOpen, HandleItalicOpen, HandleStrikethroughOpen.  The buffer is the
\* empty string in the code; opened_by records which call pushed it and is
\* read by no procedure.
HandleFormatOpen(m, kind) ==
  OnOk(m,
    Then(IF m.f.in_html # 0
         THEN _PrintHtmlWarning(Emit(m, [ev |-> "FormatOpen", kind |-> kind]), kind)
         ELSE Emit(m, [ev |-> "FormatOpen", kind |-> kind]),
         LAMBDA x : [x EXCEPT !.f.format_buffer =
                                Append(@, [text |-> <<>>, opened_by |-> kind])]))

\* The end of _HandleFormatClose: the popped and stripped buffer goes out
\* between the tags of kind.
WriteFormatted(m, kind, format_buffer) ==
  IF TextLen(format_buffer) = 0 THEN m
  ELSE IF m.f.in_html # 0
       THEN HandleHtmlClose(
              HandleText(HandleHtmlOpen(m, HTML_FORMAT_TAGS[kind].HTML, NoParams, FALSE),
                         format_buffer),
              HTML_FORMAT_TAGS[kind].HTML)
       ELSE _Write(m, <<HTML_FORMAT_TAGS[kind].Markdown>> \o format_buffer
                        \o <<HTML_FORMAT_TAGS[kind].Markdown>>)

\* Reached through HandleBoldClose, HandleItalicClose and
\* HandleStrikethroughClose.  With no buffer the code formats the unbound
\* local "tag" into its warning.
_HandleFormatClose(m, kind) ==
  OnOk(m,
    IF m.f.format_buffer # <<>>
    THEN WriteFormatted(
           Emit([m EXCEPT !.f.format_buffer = Front(@)],
                [ev |-> "FormatClose", kind |-> kind,
                 opened_by |-> Last(m.f.format_buffer).opened_by,
                 text |-> Strip(Last(m.f.format_buffer).text)]),
           kind, Strip(Last(m.f.format_buffer).text))
    ELSE Raise(m, "UnboundLocalError"))

_Indent(m, indentation_level) ==
  _Write(m, Repeat(SINGLE_INDENTATION, indentation_level))

\* The tags of the list on top of _list_tags are closed.
CloseListTags(m, kind) ==
  HandleHtmlClose(
    IF HTML_LIST_TAGS[kind].ItemTag # ""
    THEN HandleHtmlClose(m, HTML_LIST_TAGS[kind].ItemTag) ELSE m,
    HTML_LIST_TAGS[kind].ListTag)

_HandleHtmlListClose(m) ==
  OnOk(m,
    IF m.f.list_tags = <<>> THEN Raise(m, "IndexError: _list_tags[-1]")
    ELSE CloseListTags([m EXCEPT !.f.list_tags = Front(@)], Last(m.f.list_tags).kind))

\* The item of the list is opened, in a new list when new_list.
OpenListTags(m, indentation_level, kind, new_list) ==
  Then(IF new_list
       THEN HandleHtmlOpen(
              _PrintHtmlWarning(
                [m EXCEPT !.f.list_tags =
                   Append(@, [indent |-> indentation_level, kind |-> kind])],
                kind),
              HTML_LIST_TAGS[kind].ListTag, NoParams, FALSE)
       ELSE IF HTML_LIST_TAGS[kind].ItemTag # ""
            THEN HandleHtmlClose(m, HTML_LIST_TAGS[kind].ItemTag) ELSE m,
       LAMBDA x : IF HTML_LIST_TAGS[kind].ItemTag # ""
                  THEN HandleHtmlOpen(x, HTML_LIST_TAGS[kind].ItemTag, NoParams, FALSE)
                  ELSE x)

_HandleHtmlListOpen(m, indentation_level, kind) ==
  OnOk(m,
    IF m.f.list_tags = <<>>
    THEN OpenListTags(m, indentation_level, kind, TRUE)
    ELSE IF Last(m.f.list_tags).indent # indentation_level
         THEN OpenListTags(m, indentation_level, kind, TRUE)
         ELSE IF Last(m.f.list_tags).kind # kind
              THEN Then(_HandleHtmlListClose(m),
                        LAMBDA x : OpenListTags(x, indentation_level, kind, TRUE))
              ELSE OpenListTags(m, indentation_level, kind, FALSE))

ListOpenEvent(m, kind, indentation_level) ==
  Emit(m, [ev |-> "ListOpen", kind |-> kind, level |-> indentation_level])

HandleNumericListOpen(m, indentation_level) ==
  OnOk(m,
    IF m.f.in_html # 0
    THEN _HandleHtmlListOpen(ListOpenEvent(m, "numeric", indentation_level),
                             indentation_level, "Numeric list")
    ELSE _Write(_Indent(ListOpenEvent(m, "numeric", indentation_level), indentation_level),
                <<"1.", " ">>))

HandleBulletListOpen(m, indentation_level) ==
  OnOk(m,
    IF m.f.in_html # 0
    THEN _HandleHtmlListOpen(ListOpenEvent(m, "bullet", indentation_level),
                             indentation_level, "Bulleted list")
    ELSE _Write(_Indent(ListOpenEvent(m, "bullet", indentation_level), indentation_level),
                <<"*", " ">>))

HandleBlockQuoteOpen(m, indentation_level) ==
  OnOk(m,
    IF m.f.in_html # 0
    THEN _HandleHtmlListOpen(ListOpenEvent(m, "blockquote", indentation_level),
                             indentation_level, "Blockquote")
    ELSE Then(_Write(ListOpenEvent(m, "blockquote", indentation_level),
                     IF m.f.last_blockquote_indent > indentation_level
                     THEN <<"\n">> ELSE <<>>),
              LAMBDA x : _Write([x EXCEPT !.f.last_blockquote_indent = indentation_level],
                                Repeat("> ", indentation_level))))

HandleListClose(m) ==
  OnOk(m,
    IF m.f.in_html # 0 THEN _HandleHtmlListClose(Emit(m, [ev |-> "ListClose"]))
    ELSE Emit(m, [ev |-> "ListClose"]))

TableStatus(m, status) == [m EXCEPT !.f.table_status = status]

HtmlTableCellBorder(m) ==
  CASE m.f.table_status = "None" ->
         Then(HandleHtmlOpen(
                HandleHtmlOpen(
                  HandleHtmlOpen(_PrintHtmlWarning(m, "Table"), "table", NoParams, FALSE),
                  "thead", NoParams, FALSE),
                "th", NoParams, FALSE),
              LAMBDA x : TableStatus(x, "header"))
    [] m.f.table_status = "header" ->
         HandleHtmlOpen(HandleHtmlClose(m, "th"), "th", NoParams, FALSE)
    [] m.f.table_status = "rowstart" ->
         Then(HandleHtmlOpen(HandleHtmlOpen(m, "tr", NoParams, FALSE), "td", NoParams, FALSE),
              LAMBDA x : TableStatus(x, "row"))
    [] OTHER ->
         HandleHtmlOpen(HandleHtmlClose(m, "td"), "td", NoParams, FALSE)

HandleTableCellBorder(m) ==
  OnOk(m,
    IF m.f.in_html # 0 THEN HtmlTableCellBorder(Emit(m, [ev |-> "TableCellBorder"]))
    ELSE _Write(Emit(m, [ev |-> "TableCellBorder"]), <<"|">>))

HtmlTableRowEnd(m) ==
  Then(CASE m.f.table_status = "header" ->
              HandleHtmlOpen(HandleHtmlClose(HandleHtmlClose(m, "th"), "thead"),
                             "tbody", NoParams, FALSE)
         [] m.f.table_status = "row" ->
              HandleHtmlClose(HandleHtmlClose(m, "td"), "tr")
         [] OTHER -> m,
       LAMBDA x : TableStatus(x, "rowstart"))

HandleTableRowEnd(m) ==
  OnOk(m,
    IF m.f.in_html # 0 THEN HtmlTableRowEnd(Emit(m, [ev |-> "TableRowEnd"]))
    ELSE _Write(Emit(m, [ev |-> "TableRowEnd"]), <<"|">>))

HandleTableClose(m) ==
  OnOk(m,
    IF m.f.in_html # 0
    THEN Then(HandleHtmlClose(HandleHtmlClose(Emit(m, [ev |-> "TableClose"]), "tbody"),
                              "table"),
              LAMBDA x : TableStatus(x, "None"))
    ELSE Emit(m, [ev |-> "TableClose"]))

\* The loop of HandleTableHeader over the column widths.
RECURSIVE TableHeaderColumns(_, _)
TableHeaderColumns(m, columns) ==
  IF columns = <<>> THEN m
  ELSE TableHeaderColumns(
         _Write(HandleTableCellBorder(m), <<":">> \o Repeat("-", Head(columns) - 1)),
         Tail(columns))

HandleTableHeader(m, columns) ==
  OnOk(m,
    IF m.f.in_html # 0 THEN Emit(m, [ev |-> "TableHeader", columns |-> columns])
    ELSE HandleTableCellBorder(
           TableHeaderColumns(
             HandleText(Emit(m, [ev |-> "TableHeader", columns |-> columns]), <<"\n">>),
             columns)))

HandleGPlusOpen(m) == Warn(m, "Google+ +1 button removed")

HandleCommentOpen(m) ==
  OnOk(m,
    Then(_Write(Warn(Emit(m, [ev |-> "CommentOpen"]), "comment placed in empty <a> tag"),
                <<"<", "a href=", "'", "Hidden comment: ">>),
         LAMBDA x : [x EXCEPT !.f.in_comment = TRUE]))

HandleCommentClose(m) ==
  OnOk(m,
    _Write([Emit(m, [ev |-> "CommentClose"]) EXCEPT !.f.in_comment = FALSE],
           <<"'", ">", "</", "a", ">">>))

HandleVideoOpen(m, video_id, width, height) ==
  OnOk(m,
    _Write(Warn(Emit(m, [ev |-> "VideoOpen", video_id |-> video_id]),
                "image link to the video is used"),
           <<"<", "a href=", "'", "http://www.youtube.com/watch?feature=player_embedded&v=",
             video_id, "'", " target=", "'", "_blank", "'", ">",
             "<", "img src=", "'", "http://img.youtube.com/vi/", video_id, "/0.jpg", "'",
             " width=", "'", width, "'", " height=", height, " /", ">", "</", "a", ">">>))

(***************************************************************************)
(* Converter (converter.py).                                               *)
(***************************************************************************)
BASIC_HTML_ARGS == {"title", "dir", "lang"}
BASIC_HTML_SIZEABLE_ARGS == BASIC_HTML_ARGS \cup {"border", "height", "width", "align"}
BASIC_HTML_TABLE_ARGS ==
  BASIC_HTML_SIZEABLE_ARGS \cup {"valign", "cellspacing", "cellpadding"}

BasicTags ==
  {"b", "br", "blockquote", "dd", "div", "dl", "dt", "em", "h1", "h2", "h3", "h4",
   "h5", "i", "li", "pre", "q", "s", "span", "strike", "strong", "sub", "sup",
   "tt", "u", "var"}
TableTags == {"table", "tbody", "td", "tfoot", "th"}

ALLOWED_HTML_TAGS ==
  [t \in BasicTags |-> BASIC_HTML_ARGS] @@
  [t \in TableTags |-> BASIC_HTML_TABLE_ARGS] @@
  [t \in {"thead", "tr"} |-> BASIC_HTML_TABLE_ARGS \cup {"colspan", "rowspan"}] @@
  ("a"    :> BASIC_HTML_ARGS \cup {"href"}) @@
  ("code" :> BASIC_HTML_ARGS \cup {"language"}) @@
  ("font" :> BASIC_HTML_ARGS \cup {"face", "size", "color"}) @@
  ("img"  :> BASIC_HTML_SIZEABLE_ARGS \cup {"src", "alt"}) @@
  ("ol"   :> BASIC_HTML_ARGS \cup {"type", "start"}) @@
  ("p"    :> BASIC_HTML_ARGS \cup {"align"}) @@
  ("ul"   :> BASIC_HTML_ARGS \cup {"type"})

IsAllowedHtmlTag(plugin_id) == plugin_id[1] = "" /\ plugin_id[2] \in DOMAIN ALLOWED_HTML_TAGS

RAW_PLUGINS == {<<"", "code">>, <<"wiki", "comment">>, <<"", "pre">>}
PLUSONE_ARGS == {"count", "size", "href"}
VIDEO_ARGS == {"url", "width", "height"}
VIDEO_DEFAULT_WIDTH == "425"
VIDEO_DEFAULT_HEIGHT == "344"

ConvInit ==
  [ code_block_depth |-> 0,
    code_block_lines |-> <<>>,
    indents          |-> <<>>,
    open_tags        |-> <<>>,
    table_columns    |-> <<>>,
    table_column     |-> 0,
    plugin_stack     |-> <<>>,
    project          |-> "proj" ]

\* _ProcessBody, lines 196-203, on a converter made for c's project.
BodyInit(c) == [ConvInit EXCEPT !.project = c.project]

\* The text of a plugin id, of an opening tag match and of a closing tag match.
IdText(plugin_id) ==
  IF plugin_id[1] = "" THEN plugin_id[2] ELSE plugin_id[1] \o ":" \o plugin_id[2]

RECURSIVE ParamsText(_)
ParamsText(params) ==
  IF DOMAIN params = {} THEN ""
  ELSE LET name == CHOOSE x \in DOMAIN params : TRUE
           rest == [x \in DOMAIN params \ {name} |-> params[x]]
       IN " " \o name \o "=" \o params[name] \o ParamsText(rest)

PluginMatch(plugin_id, params, has_end) ==
  <<"<", IdText(plugin_id) \o ParamsText(params) \o (IF has_end THEN "/" ELSE ""), ">">>
PluginEndMatch(plugin_id) == <<"</", IdText(plugin_id), ">">>

\* _ConsumeTextForPlugin
_ConsumeTextForPlugin(c) ==
  c.plugin_stack # <<>> /\ Last(c.plugin_stack).id \in RAW_PLUGINS

\* list.remove(x): the first occurrence is removed.
RECURSIVE Remove(_, _)
Remove(s, x) ==
  IF s = <<>> THEN s
  ELSE IF Head(s) = x THEN Tail(s) ELSE <<Head(s)>> \o Remove(Tail(s), x)

_OpenTag(m, tag) ==
  Then(HandleFormatOpen(m, tag), LAMBDA x : [x EXCEPT !.c.open_tags = Append(@, tag)])

_CloseTag(m, tag) ==
  Then(_HandleFormatClose(m, tag), LAMBDA x : [x EXCEPT !.c.open_tags = Remove(@, tag)])

\* "for tag in self._open_tags" walks the list by index while _CloseTag removes
\* from it; i is the number of iterations done.
RECURSIVE CloseTagsFrom(_, _)
CloseTagsFrom(m, i) ==
  IF m.err \/ i >= Len(m.c.open_tags) THEN m
  ELSE CloseTagsFrom(_CloseTag(m, m.c.open_tags[i + 1]), i + 1)

_CloseTags(m) == CloseTagsFrom(m, 0)

_HandleTag(m, tag) ==
  OnOk(m,
    IF \A i \in 1..Len(m.c.open_tags) : m.c.open_tags[i] # tag
    THEN _OpenTag(m, tag)
    ELSE _CloseTag(m, tag))

\* CloseRow, were it to end the row whatever the column is.
CloseRowAgain(m, table_column, table_columns) ==
  Then(HandleTableRowEnd(m),
       LAMBDA x :
         Then(IF table_column = 0 THEN HandleTableHeader(x, table_columns) ELSE x,
              LAMBDA y : [y EXCEPT !.c.table_column = 1]))

\* table_column is the column on entry: 0 in the header row.
CloseRow(m, table_column, table_columns) ==
  Then(IF table_column # 1 THEN HandleTableRowEnd(m) ELSE m,
       LAMBDA x :
         Then(IF table_column = 0 THEN HandleTableHeader(x, table_columns) ELSE x,
              LAMBDA y : [y EXCEPT !.c.table_column = 1]))

_CloseTableRow(m) ==
  OnOk(m,
    IF m.c.table_columns # <<>>
    THEN CloseRow(m, m.c.table_column, m.c.table_columns)
    ELSE m)

\* The while loop of _SetCurrentList.
RECURSIVE PopLists(_, _, _)
PopLists(m, indent_pos, list_type) ==
  IF m.err \/ m.c.indents = <<>> THEN m
  ELSE IF Last(m.c.indents)[1] >= indent_pos
          /\ ~(Last(m.c.indents)[1] = indent_pos /\ Last(m.c.indents)[2] = list_type)
       THEN PopLists(Then(HandleListClose(m),
                          LAMBDA x : [x EXCEPT !.c.indents = Front(@)]),
                     indent_pos, list_type)
       ELSE m

\* AddIndent with ">=" for ">": an item at the position of the list on top
\* adds an indentation too.
AddIndentAtSamePosition(m, indent_pos, list_type) ==
  IF m.c.indents = <<>> \/ indent_pos >= Last(m.c.indents)[1]
  THEN [m EXCEPT !.c.indents = Append(@, <<indent_pos, list_type>>)]
  ELSE m

\* Lines 377-378: a new indentation is added for the first item overall, or
\* the first item at this indentation position.
AddIndent(m, indent_pos, list_type) ==
  IF m.c.indents = <<>> \/ indent_pos > Last(m.c.indents)[1]
  THEN [m EXCEPT !.c.indents = Append(@, <<indent_pos, list_type>>)]
  ELSE m

\* Lines 380-400: the leading Markdown for the list.
OpenListItem(m, list_type) ==
  CASE list_type = "numeric" -> HandleNumericListOpen(m, Len(m.c.indents))
    [] list_type = "bullet" -> HandleBulletListOpen(m, Len(m.c.indents))
    [] list_type = "blockquote" -> HandleBlockQuoteOpen(m, Len(m.c.indents))
    [] OTHER -> Warn(m, "Bad list type")

\* Lines 371-402, after the while loop.
EnterList(m, indent_pos, list_type) ==
  IF indent_pos = 0 THEN ReturnValue(m, "_SetCurrentList", FALSE)
  ELSE Then(IF m.c.indents = <<>> \/ indent_pos >= Last(m.c.indents)[1]
            THEN OpenListItem(AddIndent(m, indent_pos, list_type), list_type)
            ELSE m,
            LAMBDA x : ReturnValue(x, "_SetCurrentList", TRUE))

\* The result (True: in a list item) is left in m.ret.
_SetCurrentList(m, indent_pos, list_type) ==
  OnOk(m,
    Then(PopLists(Emit(m, [ev |-> "Call", rule |-> "_SetCurrentList",
                           indent_pos |-> indent_pos, list_type |-> list_type]),
                  indent_pos, list_type),
         LAMBDA x : EnterList(x, indent_pos, list_type)))

\* One "will not be present in the outputted HTML" warning per dropped parameter.
RECURSIVE WarnDropped(_, _)
WarnDropped(m, names) ==
  IF names = {} THEN m
  ELSE WarnDropped(Warn(m, "parameter dropped: " \o (CHOOSE x \in names : TRUE)),
                   names \ {CHOOSE x \in names : TRUE})

Filter(params, allowed) == [x \in DOMAIN params \cap allowed |-> params[x]]

_HandlePluginHtml(m, plugin_id, params, has_end) ==
  IF plugin_id = <<"", "code">>
  THEN HandleCodeBlockOpen(
         WarnDropped(m, DOMAIN params \ ALLOWED_HTML_TAGS[plugin_id[2]]),
         IF "language" \in DOMAIN params \cap ALLOWED_HTML_TAGS[plugin_id[2]]
         THEN params["language"] ELSE "")
  ELSE HandleHtmlOpen(
         WarnDropped(m, DOMAIN params \ ALLOWED_HTML_TAGS[plugin_id[2]]),
         plugin_id[2], Filter(params, ALLOWED_HTML_TAGS[plugin_id[2]]), has_end)

_HandlePluginGPlus(m, plugin_id, params) ==
  HandleGPlusOpen(WarnDropped(m, DOMAIN params \ PLUSONE_ARGS))

_HandlePluginWikiComment(m, plugin_id, params) ==
  HandleCommentOpen(WarnDropped(m, DOMAIN params))

_HandlePluginWikiGadget(m, match) ==
  HandleEscapedText(Warn(m, "wiki gadget must be converted manually"), match)

\* The video id found in the url parameter ("" when there is none): the "v"
\* query parameter, or the path after "/v/".
VideoIdOf(url) ==
  CASE url = "http://youtube.com/watch?v=abc" -> "abc"
    [] url = "http://youtube.com/v/abc" -> "abc"
    [] url = "http://youtube.com/watch?v=a!c" -> "a!c"
    [] url = "http://youtube.com/watch?v=abc%0A" -> "abc\n"
    [] url = "http://youtube.com/v/abc%0A" -> "abc%0A"
    [] OTHER -> ""
\* YOUTUBE_VIDEO_ID_RE.match(video_id), were its "$" the end of the string.
IsVideoIdToTheEnd(video_id) == video_id \in {"abc"}
\* YOUTUBE_VIDEO_ID_RE.match(video_id): "^[a-zA-Z0-9_-]+$", whose "$" also
\* matches before a newline that ends the string.
IsVideoId(video_id) == video_id \in {"abc", "abc\n"}

ParamOr(params, name, default) == IF name \in DOMAIN params THEN params[name] ELSE default

\* _HandlePluginWikiVideo once the parameters are filtered.
OpenVideo(m, params) ==
  IF "url" \in DOMAIN params
  THEN IF ~IsVideoId(VideoIdOf(params["url"]))
       THEN HandleEscapedText(
              Warn(m, "Video plugin has invalid video ID"),
              <<"\n", "\n", "wiki:video: cannot find YouTube video id within parameter \"url\".",
                "\n", "\n">>)
       ELSE HandleVideoOpen(m, VideoIdOf(params["url"]),
                            ParamOr(params, "width", VIDEO_DEFAULT_WIDTH),
                            ParamOr(params, "height", VIDEO_DEFAULT_HEIGHT))
  ELSE HandleEscapedText(
         Warn(m, "Video plugin is missing 'url' parameter"),
         <<"\n", "\n", "wiki:video: missing mandatory parameter \"url\".", "\n", "\n">>)

_HandlePluginWikiVideo(m, plugin_id, params) ==
  OpenVideo(WarnDropped(m, DOMAIN params \ VIDEO_ARGS), Filter(params, VIDEO_ARGS))

_HandlePluginWikiToc(m, match) ==
  Warn(m, "table of contents plugin removed")

\* Lines 916-948 of _HandlePlugin: the handler of the plugin id.
OpenPlugin(m, plugin_id, params, has_end) ==
  CASE IsAllowedHtmlTag(plugin_id) -> _HandlePluginHtml(m, plugin_id, params, has_end)
    [] plugin_id = <<"g", "plusone">> -> _HandlePluginGPlus(m, plugin_id, params)
    [] plugin_id = <<"wiki", "comment">> -> _HandlePluginWikiComment(m, plugin_id, params)
    [] plugin_id = <<"wiki", "gadget">> ->
         _HandlePluginWikiGadget(m, PluginMatch(plugin_id, params, has_end))
    [] plugin_id = <<"wiki", "video">> -> _HandlePluginWikiVideo(m, plugin_id, params)
    [] plugin_id = <<"wiki", "toc">> ->
         _HandlePluginWikiToc(m, PluginMatch(plugin_id, params, has_end))
    [] OTHER ->
         HandleEscapedText(Warn(m, "Unknown plugin"),
                           <<"\n", "\n">> \o PluginMatch(plugin_id, params, has_end)
                             \o <<"\n", "\n">>)

_HandlePlugin(m, plugin_id, params, has_end) ==
  Then(_CloseTags(m),
       LAMBDA x :
         Then(OpenPlugin(x, plugin_id, params, has_end),
              LAMBDA y :
                IF ~has_end
                THEN [y EXCEPT !.c.plugin_stack =
                                 Append(@, [id |-> plugin_id, params |-> params])]
                ELSE y))

\* The marker names the tag without its namespace: plugin_id.split(":", 1)[-1].
UnknownEndTag(tag_without_ns) ==
  <<"\n", "\n", "Unknown end tag for ", "</", tag_without_ns, ">", "\n", "\n">>

\* CloseUnknownPlugin without its warning.
CloseUnknownPluginSilently(m, plugin_id) ==
  HandleEscapedText(m, <<"\n", "\n">> \o PluginEndMatch(plugin_id) \o <<"\n", "\n">>)

\* Lines 1185-1193 of _HandlePluginEnd: the plugin on top of the stack ends and
\* no handler knows it.
CloseUnknownPlugin(m, plugin_id) ==
  HandleEscapedText(Warn(m, "Unknown but matching plugin end"),
                    <<"\n", "\n">> \o PluginEndMatch(plugin_id) \o <<"\n", "\n">>)

\* Lines 1162-1193 of _HandlePluginEnd: the plugin on top of the stack ends.
ClosePlugin(m, plugin_id) ==
  CASE IsAllowedHtmlTag(plugin_id) ->
         IF plugin_id = <<"", "code">>
         THEN HandleCodeBlockClose(m)
         ELSE HandleHtmlClose(m, plugin_id[2])
    [] plugin_id = <<"g", "plusone">> -> m
    [] plugin_id = <<"wiki", "comment">> -> HandleCommentClose(m)
    [] plugin_id = <<"wiki", "gadget">> -> HandleEscapedText(m, PluginEndMatch(plugin_id))
    [] plugin_id = <<"wiki", "video">> -> m
    [] plugin_id = <<"wiki", "toc">> -> m
    [] OTHER -> CloseUnknownPlugin(m, plugin_id)

\* UnmatchedEnd, were it to pop the plugin on top of the stack.
UnmatchedEndPops(m, plugin_id) ==
  HandleEscapedText(
    Warn([m EXCEPT !.c.plugin_stack = IF @ = <<>> THEN @ ELSE Front(@)],
         "Unknown/unmatched plugin end"),
    UnknownEndTag(plugin_id[2]))

\* Lines 1194-1205 of _HandlePluginEnd: no plugin, or another one, is on top.
UnmatchedEnd(m, plugin_id) ==
  HandleEscapedText(Warn(m, "Unknown/unmatched plugin end"), UnknownEndTag(plugin_id[2]))

_HandlePluginEnd(m, plugin_id) ==
  OnOk(m,
    IF m.c.plugin_stack # <<>> /\ Last(m.c.plugin_stack).id = plugin_id
    THEN ClosePlugin([m EXCEPT !.c.plugin_stack = Front(@)], plugin_id)
    ELSE UnmatchedEnd(m, plugin_id))

\* _HandleUrlBracket, lines 765-781: match is "[" url "]" or
\* "[" url whitespace description "]".
FirstSpace(core) ==
  IF \E i \in 1..Len(core) : IsSpaceChunk(core[i])
  THEN CHOOSE i \in 1..Len(core) :
         IsSpaceChunk(core[i]) /\ \A j \in 1..(i-1) : ~IsSpaceChunk(core[j])
  ELSE 0
BracketUrl(core) ==
  IF FirstSpace(core) = 0 THEN core ELSE SubSeq(core, 1, FirstSpace(core) - 1)
BracketDescription(core) ==
  IF FirstSpace(core) = 0 THEN None
  ELSE LStrip(SubSeq(core, FirstSpace(core) + 1, Len(core)))
_HandleUrlBracket(m, match) ==
  HandleLink(m, BracketUrl(SubSeq(match, 2, Len(match) - 1)),
             BracketDescription(SubSeq(match, 2, Len(match) - 1)))

_HandleUrl(m, match) == HandleLink(m, match, None)

\* match[:-len(number)]: with an empty number this is match[:0].
PrefixOf(match, number) ==
  IF number = <<>> THEN <<>> ELSE SubSeq(match, 1, Len(match) - Len(number))

\* _HandleIssueLink, lines 836-851: match is written one character a chunk.
IssueOf(match) == Strip(SubSeq(match, Len("issue") + 1, Len(match)))
_HandleIssueLink(m, match) ==
  HandleIssue(m, PrefixOf(match, IssueOf(match)), IssueOf(match))

\* _HandleRevisionLink, lines 853-870.
RevisionOf(match) ==
  IF match[2] \in {"e", "E"}
  THEN Strip(SubSeq(match, Len("revision") + 1, Len(match)))
  ELSE Strip(SubSeq(match, Len("r") + 1, Len(match)))
_HandleRevisionLink(m, match) ==
  HandleRevision(m, PrefixOf(match, RevisionOf(match)), RevisionOf(match))

\* _HandleVariable, lines 1218-1226: the value the innermost plugin with a
\* parameter called match gives it; "" where the code has None.
RECURSIVE StackValue(_, _)
StackValue(plugin_stack, match) ==
  IF plugin_stack = <<>> THEN ""
  ELSE IF match \in DOMAIN Last(plugin_stack).params
       THEN Last(plugin_stack).params[match]
       ELSE StackValue(Front(plugin_stack), match)

VARIABLE_WARNING(match) == "A variable substitution was performed with %%" \o match \o "%%"

\* _HandleVariable, lines 1228-1266, when the plugin stack gave no output.
GlobalVariable(m, match) ==
  CASE match = "username" ->
         Warn(HandleEscapedText(m, <<"(TODO: Replace with username.)">>),
              VARIABLE_WARNING(match))
    [] match = "email" ->
         Warn(HandleEscapedText(m, <<"(TODO: Replace with email address.)">>),
              VARIABLE_WARNING(match))
    [] match = "project" ->
         Warn(HandleEscapedText(m, <<IF m.c.project # "" THEN m.c.project
                                     ELSE "(TODO: Replace with project name.)">>),
              VARIABLE_WARNING(match))
    [] OTHER -> HandleEscapedText(m, <<"%%" \o match \o "%%">>)

_HandleVariable(m, match) ==
  IF StackValue(m.c.plugin_stack, match) # ""
  THEN HandleEscapedText(m, <<StackValue(m.c.plugin_stack, match)>>)
  ELSE GlobalVariable(m, match)

\* _HandleTableCell up to the recursive _ProcessMatch over the cell's text.
HandleTableCellBegin(m, pipecount) ==
  HandleTableCellBorder(_CloseTags(m))

\* The span loop of _HandleTableCell.
RECURSIVE EmptyCells(_, _)
EmptyCells(m, span) ==
  IF m.err \/ span <= 1 THEN m
  ELSE EmptyCells(Then(HandleEscapedText(HandleTableCellBorder(m), <<" ">>),
                       LAMBDA x : [x EXCEPT !.c.table_columns = Append(@, 1)]),
                  span - 1)

\* Lines 696-712 of _HandleTableCell: the width is tracked in the header
\* row, and pads the cell in a body row.
TrackOrPad(m, cell_width) ==
  IF m.c.table_column = 0
  THEN [m EXCEPT !.c.table_columns = Append(@, cell_width)]
  ELSE IF m.c.table_column > Len(m.c.table_columns)
       THEN Raise(m, "IndexError: _table_columns[_table_column - 1]")
       ELSE Then(IF m.c.table_columns[m.c.table_column] - cell_width > 0
                 THEN HandleEscapedText(
                        m, Repeat(" ", m.c.table_columns[m.c.table_column] - cell_width))
                 ELSE m,
                 LAMBDA x : [x EXCEPT !.c.table_column = @ + 1])

\* _HandleTableCell after the recursive _ProcessMatch: cell_width is
\* ending_pos - starting_pos, the characters the output stream received.
HandleTableCellEnd(m, pipecount, cell_width) ==
  Then(TrackOrPad(m, cell_width),
       LAMBDA x :
         IF pipecount \div 2 > 1
         THEN EmptyCells(Warn(x, "Multi-span cells are not directly supported"),
                         pipecount \div 2)
         ELSE x)

\* _HandleTableRowEnd
_HandleTableRowEnd(m) == _CloseTableRow(_CloseTags(m))

(***************************************************************************)
(* GitHubService (googlecode-issues-exporter/github_services.py).          *)
(* A response is a record that has a field status or has none; the content *)
(* of the rate_limit resource is a record that may have a field rate with  *)
(* a field remaining.                                                      *)
(***************************************************************************)
MAX_HTTP_REQUESTS == 3

\* No call of _PerformHttpRequest has begun.  attempts, limited and observed
\* record what the call did: the requests it sent, those of them that failed
\* with no request remaining, and the remaining counts read since the last
\* request.
HttpInit ==
  [ pc |-> "idle", requests |-> 0, response |-> [unbound |-> TRUE],
    result |-> [unbound |-> TRUE], attempts |-> 0, limited |-> 0, observed |-> <<>> ]

_CheckSuccessful(response) ==
  "status" \in DOMAIN response /\ 200 <= response.status /\ response.status < 300

_GetRemainingRequests(content) ==
  IF "rate" \in DOMAIN content /\ "remaining" \in DOMAIN content.rate
  THEN content.rate.remaining ELSE 0

_RequestLimitReached(content) == _GetRemainingRequests(content) = 0

\* The elif branch, were it to leave the request counted.
ThrottledCounted(h) == [h EXCEPT !.pc = "waiting", !.limited = @ + 1]
\* Lines 143-145: the request is not counted, and the wait begins.
Throttled(h) ==
  [h EXCEPT !.requests = @ - 1, !.pc = "waiting", !.limited = @ + 1]

\* Lines 137 and 146: the loop goes on while requests < MAX_HTTP_REQUESTS,
\* then the last response is returned.
LoopTest(h) ==
  IF h.requests < MAX_HTTP_REQUESTS THEN [h EXCEPT !.pc = "loop"]
  ELSE [h EXCEPT !.pc = "returned", !.result = h.response]

(***************************************************************************)
(* IssueExporter (googlecode-issues-exporter/issues.py).                   *)
(* An issue of the export file is a record with a title, a sequence items  *)
(* of comments whose first is the description, and a state or none; a      *)
(* comment is a record that has a field deletedBy or has none.  An issue   *)
(* of the destination service has a title, a number and a count comments.  *)
(* calls is the sequence of the calls made of the issue service, which     *)
(* numbers the issues it creates from next_id on.                          *)
(***************************************************************************)
\* IssueExporter.__init__, lines 573-598, on the export file
\* issue_json_data, the service holding open_issues and closed_issues.
ExporterInit(issue_json_data, open_issues, closed_issues) ==
  [ pc |-> "made",
    issue_json_data |-> issue_json_data,
    open_issues |-> open_issues,
    closed_issues |-> closed_issues,
    previously_created_issues |-> [title \in {} |-> <<>>],
    issue_total |-> 0, issue_number |-> 0,
    comment_number |-> 0, comment_total |-> 0, skipped_issues |-> 0,
    next_id |-> Len(open_issues) + Len(closed_issues) + 1,
    calls |-> <<>> ]

\* GoogleCodeIssue.GetComments, lines 249-252.
IsNotDeleted(c) == "deletedBy" \notin DOMAIN c
GetComments(issue) == SelectSeq(Tail(issue.items), IsNotDeleted)

\* GoogleCodeIssue.IsOpen, line 260.
IsOpen(issue) == "state" \in DOMAIN issue /\ issue.state = "open"

\* _GetAllPreviousIssues, lines 611-618: the loop over the issues.
RECURSIVE RecordIssues(_, _)
RecordIssues(previously, issues) ==
  IF issues = <<>> THEN previously
  ELSE RecordIssues(
         [title \in DOMAIN previously \cup {Head(issues).title} |->
            IF title = Head(issues).title
            THEN [id |-> Head(issues).number, title |-> title,
                  comment_count |-> Head(issues).comments]
            ELSE previously[title]],
         Tail(issues))

_GetAllPreviousIssues(e) ==
  [e EXCEPT !.previously_created_issues =
              RecordIssues(@, e.open_issues \o e.closed_issues),
            !.pc = "ready"]

\* A call of the issue service.
CreateComment(e, issue_number, comment) ==
  [e EXCEPT !.calls = Append(@, [op |-> "CreateComment", id |-> issue_number,
                                 comment |-> comment])]
CloseIssue(e, issue_number) ==
  [e EXCEPT !.calls = Append(@, [op |-> "CloseIssue", id |-> issue_number])]
\* _CreateIssue, line 644: the service gives the new issue its number.
_CreateIssue(e, issue) ==
  [e EXCEPT !.calls = Append(@, [op |-> "CreateIssue", issue |-> issue]),
            !.next_id = @ + 1]

\* The loop of _CreateComments, lines 660-664, over the comments after the
\* first done of them.
RECURSIVE CreateCommentsLoop(_, _, _, _)
CreateCommentsLoop(e, comments, issue_number, done) ==
  IF done >= Len(comments) THEN e
  ELSE CreateCommentsLoop(
         CreateComment([e EXCEPT !.comment_number = @ + 1], issue_number,
                       comments[done + 1]),
         comments, issue_number, done + 1)

_CreateComments(e, comments, issue_number) ==
  CreateCommentsLoop([e EXCEPT !.comment_total = Len(comments), !.comment_number = 0],
                     comments, issue_number, 0)

\* Start, were it to add every comment of an issue posted before.
AddAllComments(e, issue_id, issue_comments, idx) ==
  IF issue_comments = <<>> THEN e
  ELSE CreateCommentsLoop(e, issue_comments, issue_id, 0)

\* Start, lines 777-786: for idx in range(num_existing_comments,
\* num_issue_comments), idx being the next index.
RECURSIVE AddMissingComments(_, _, _, _)
AddMissingComments(e, issue_id, issue_comments, idx) ==
  IF idx >= Len(issue_comments) THEN e
  ELSE AddMissingComments(CreateComment(e, issue_id, issue_comments[idx + 1]),
                          issue_id, issue_comments, idx + 1)

\* Start, lines 767-788: the issue has already been posted.
SkipIssue(e, issue) ==
  AddMissingComments([e EXCEPT !.skipped_issues = @ + 1],
                     e.previously_created_issues[issue.title].id,
                     GetComments(issue),
                     e.previously_created_issues[issue.title].comment_count)

\* Start, lines 790-798: the issue is posted for the first time.
PostIssue(e, issue) ==
  IF ~IsOpen(issue)
  THEN CloseIssue(_CreateComments(_CreateIssue(e, issue), GetComments(issue), e.next_id),
                  e.next_id)
  ELSE _CreateComments(_CreateIssue(e, issue), GetComments(issue), e.next_id)

(***************************************************************************)
(* The state machine.                                                      *)
(***************************************************************************)
\* Convert begins at start_pc with one of the documents in lines, on objects
\* made with one of the configurations in convs and fmts.
InitEngine(n, start_pc, lines, convs, fmts) ==
  /\ conv \in convs
  /\ fmt \in fmts
  /\ pc = start_pc
  /\ input_lines \in lines
  /\ input_line = 1
  /\ consumed = <<>>
  /\ ctx = <<>>
  /\ first_line = TRUE
  /\ events = <<>>
  /\ borders = 0
  /\ header_cells = 0
  /\ row_ends = 0
  /\ headers = 0
  /\ scenario_line = 0
  /\ list_closes = 0
  /\ html_tags = <<>>
  /\ budget = n

\* No call of the issue exporter is in progress.
InitConfigured(n, start_pc, lines, convs, fmts) ==
  /\ InitEngine(n, start_pc, lines, convs, fmts)
  /\ http = HttpInit
  /\ exporter = ExporterInit(<<>>, <<>>, <<>>)

\* Convert begins at start_pc with one of the documents in lines.
InitAt(n, start_pc, lines) == InitConfigured(n, start_pc, lines, {ConvInit}, {FmtInit})

\* _ProcessBody has reached its loop; the lines are drawn as they are read.
InitWith(n) == InitAt(n, "body", {<<>>})

Machine == [c |-> conv, f |-> fmt, log |-> <<>>, w |-> 0, err |-> FALSE, ret |-> FALSE]

InCell(cx) == cx # <<>> /\ Last(cx).rule = "TableCell"
InHeading(cx) == cx # <<>> /\ Last(cx).rule = "Heading"

RECURSIVE Count(_, _)
Count(log, ev) ==
  IF log = <<>> THEN 0
  ELSE (IF Head(log).ev = ev THEN 1 ELSE 0) + Count(Tail(log), ev)

\* The characters a step sent to the output stream count toward the width of
\* the table cell being processed (output_stream.tell() in _HandleTableCell).
AddWidth(cx, w) ==
  IF InCell(cx) THEN [cx EXCEPT ![Len(cx)].width = @ + w] ELSE cx

\* The document of the numeric list scenario: "1. a", "  1. b", "    1. c",
\* "  1. d".  The first line is not indented, so it is a line of text.
NUMERIC_LIST ==
  << [indent_pos |-> 0, list_type |-> "blockquote", after |-> "char", content |-> "text"],
     [indent_pos |-> 2, list_type |-> "numeric", after |-> "char", content |-> "text"],
     [indent_pos |-> 4, list_type |-> "numeric", after |-> "char", content |-> "text"],
     [indent_pos |-> 2, list_type |-> "numeric", after |-> "char", content |-> "text"] >>

\* scenario_line after the step that made log.
NextScenarioLine(k, log) ==
  IF log[1].ev = "Line" /\ log[1].kind = "end" THEN k
  ELSE IF /\ k >= 0 /\ k < Len(NUMERIC_LIST)
          /\ log[1].ev = "Line" /\ log[1].kind = "text"
          /\ log[1].sh = NUMERIC_LIST[k + 1]
       THEN k + 1
       ELSE -1

\* The unclosed HTML tags of the output once the writes of log have followed
\* those that left stack: "<tag>" adds tag, "</tag>" closes the last tag if it
\* is that one, and a new conversion writes to a new output.
RECURSIVE WrittenTags(_, _)
WrittenTags(stack, log) ==
  IF log = <<>> THEN stack
  ELSE WrittenTags(
         CASE Head(log).ev = "HtmlOpen" /\ ~Head(log).has_end -> Append(stack, Head(log).tag)
           [] Head(log).ev = "HtmlClose" /\ stack # <<>> /\ Last(stack) = Head(log).tag ->
                Front(stack)
           [] Head(log).ev = "Call" /\ Head(log).rule = "Convert" -> <<>>
           [] OTHER -> stack,
         Tail(log))

\* What a step leaves, next_line being the line to read after it.
CommitAt(m, next_pc, next_ctx, borders_before, row_ends_before, next_line) ==
  /\ conv' = m.c
  /\ input_line' = (IF m.err THEN input_line ELSE next_line)
  /\ UNCHANGED input_lines
  /\ fmt' = m.f
  /\ events' = m.log
  /\ pc' = IF m.err THEN "crashed" ELSE next_pc
  /\ ctx' = IF m.err THEN ctx ELSE next_ctx
  /\ borders' = borders_before + Count(m.log, "TableCellBorder")
  /\ header_cells' = IF m.c.table_columns = <<>> THEN 0
                     ELSE IF conv.table_column = 0 /\ m.c.table_column = 1
                          THEN Len(m.c.table_columns)
                          ELSE header_cells
  /\ row_ends' = row_ends_before + Count(m.log, "TableRowEnd")
  /\ headers' = IF m.c.table_columns = <<>> THEN 0
                ELSE headers + Count(m.log, "TableHeader")
  /\ scenario_line' = NextScenarioLine(scenario_line, m.log)
  /\ list_closes' = IF NextScenarioLine(scenario_line, m.log) = -1 THEN 0
                    ELSE list_closes + Count(m.log, "ListClose")
  /\ html_tags' = WrittenTags(html_tags, m.log)
  /\ UNCHANGED <<http, exporter>>
  /\ budget' = budget - 1

\* A step of _ProcessBody: "input_line += 1" once _ProcessLine has returned.
Commit(m, next_pc, next_ctx, borders_before, row_ends_before) ==
  CommitAt(m, next_pc, next_ctx, borders_before, row_ends_before,
           IF next_pc = "body" THEN input_line + 1 ELSE input_line)

Running == budget > 0

\* A step of _ProcessBody's loop: one call of _ProcessLine begins.
Line(m, next_pc) ==
  /\ Commit(m, next_pc, ctx, 0, 0)
  /\ first_line' = FALSE
  /\ consumed' = Append(consumed, input_line)
\* A step inside a line.
Step(m, next_pc, next_ctx) ==
  /\ Commit(m, next_pc, next_ctx, borders, row_ends)
  /\ UNCHANGED <<first_line, consumed>>
\* A step of a _ProcessMatch loop: what it sent to the output stream has
\* widened the table cell being processed.
Inline(m) == Step(m, "match", AddWidth(ctx, m.w))

LineEvent(kind) == Emit(Machine, [ev |-> "Line", kind |-> kind])
\* A non-blank line outside code blocks, of shape sh (see LineShapes).
TextLineEvent(sh) == Emit(Machine, [ev |-> "Line", kind |-> "text", sh |-> sh])
MatchEvent(rule, arg) ==
  Emit(Machine, [ev |-> "Match", rule |-> rule, arg |-> arg,
                 raw |-> _ConsumeTextForPlugin(conv)])
ReturnEvent(rule) == Emit(Machine, [ev |-> "Return", rule |-> rule])

\* _ProcessLine, lines 246-255: a "{{{" line.
ProcessLineFenceOpen ==
  /\ Running /\ pc = "body"
  /\ conv.code_block_depth < MaxDepth
  /\ LET m == LineEvent("{{{")
         m1 == IF conv.code_block_depth = 0
               THEN [m EXCEPT !.c.code_block_lines = <<>>]
               ELSE [m EXCEPT !.c.code_block_lines = @ \o <<"{{{", "\n">>]
     IN Line([m1 EXCEPT !.c.code_block_depth = @ + 1], "body")

\* Lines 262-272: the outermost code block goes out.
WriteCodeBlock(m) ==
  HandleCodeBlockClose(
    HandleText(HandleCodeBlockOpen(HandleEscapedText(m, <<"\n">>), ""),
               m.c.code_block_lines))

\* _ProcessLine, lines 257-276: a "}}}" line.
ProcessLineFenceClose ==
  /\ Running /\ pc = "body"
  /\ conv.code_block_depth > -MaxDepth
  /\ Line(IF conv.code_block_depth - 1 = 0
          THEN WriteCodeBlock([LineEvent("}}}") EXCEPT !.c.code_block_depth = @ - 1])
          ELSE [LineEvent("}}}") EXCEPT !.c.code_block_depth = @ - 1,
                                        !.c.code_block_lines = @ \o <<"}}}", "\n">>],
          "body")

\* _ProcessLine, lines 278-282: any other line while a code block is open.
ProcessLineCollect ==
  /\ Running /\ pc = "body"
  /\ conv.code_block_depth # 0
  /\ Line([LineEvent("collected") EXCEPT !.c.code_block_lines = @ \o <<"raw", "\n">>], "body")

\* Lines 290-293: the table, if any, is over.
CloseTable(m) ==
  Then(IF m.c.table_columns # <<>> THEN HandleTableClose(m) ELSE m,
       LAMBDA x : [x EXCEPT !.c.table_columns = <<>>, !.c.table_column = 0])

\* _ProcessLine, lines 284-296: a blank line.  _MoveToMain has skipped the
\* blank lines before the body, so the first line of the body is not blank.
ProcessLineBlank ==
  /\ Running /\ pc = "body"
  /\ conv.code_block_depth = 0
  /\ ~first_line
  /\ Line(HandleParagraphBreak(
            IF ~_ConsumeTextForPlugin(conv)
            THEN CloseTable(_CloseTags(_SetCurrentList(LineEvent("blank"), 0, " ")))
            ELSE LineEvent("blank")),
          "body")

\* What a non-blank line is made of, as far as lines 298-347 look at it:
\*   indent_pos  the length of its leading whitespace;
\*   list_type   LIST_TYPES.get(line[indent_pos], "blockquote");
\*   after       what follows the list symbol: a space, another character,
\*               the line's newline, or nothing (a last line without a
\*               newline that ends with the symbol);
\*   content     the stripped line once the symbol is removed: nothing, text
\*               that no rule matches, or text with matches.
LineShapes ==
  { sh \in [indent_pos : 0..MaxIndent,
            list_type : {"numeric", "bullet", "blockquote"},
            after : {"space", "char", "newline", "none"},
            content : {"none", "text", "markup"}] :
      /\ (sh.indent_pos = 0 \/ sh.list_type = "blockquote")
           => sh.after = "char" /\ sh.content # "none"
      /\ sh.after \in {"newline", "none"} <=> sh.content = "none" }

\* Lines 316-325: the list symbol and the character after it are removed.
RemoveSymbol(m, sh) ==
  IF sh.list_type = "blockquote" THEN m
  ELSE IF sh.after = "none" THEN Raise(m, "IndexError: line[indent_pos + 1]")
       ELSE IF sh.after # "space" THEN Warn(m, "Missing space after list symbol")
            ELSE m

\* Lines 306-330: the list the line belongs to.
EnterLine(m, sh) ==
  IF sh.indent_pos # 0 /\ ~_ConsumeTextForPlugin(m.c)
  THEN Then(_SetCurrentList(m, sh.indent_pos, sh.list_type),
            LAMBDA x : IF x.ret THEN RemoveSymbol(x, sh) ELSE _SetCurrentList(x, 0, " "))
  ELSE m

\* _ProcessMatch, lines 490-501 and 517-528: text outside the matches.
Flush(m, text) ==
  OnOk(m, IF _ConsumeTextForPlugin(m.c) THEN HandleText(m, text)
          ELSE HandleEscapedText(m, text))

\* Lines 332-347 for a line without matches.
FinishLine(m, sh) ==
  CASE sh.content = "none" -> _CloseTableRow(m)
    [] sh.content = "text" -> _CloseTableRow(Flush(m, <<"x">>))
    [] OTHER -> m

\* _ProcessLine, lines 298-347: a non-blank line outside code blocks.  A line
\* with matches goes on to the steps of _ProcessMatch; any other line is
\* finished here.  While a raw plugin is open the indentation is not looked
\* at, and the model draws it as 0 then.
ProcessLineStart(sh) ==
  /\ Running /\ pc = "body"
  /\ conv.code_block_depth = 0
  /\ _ConsumeTextForPlugin(conv) => sh.indent_pos = 0
  /\ Line(FinishLine(
            EnterLine(IF ~first_line THEN HandleEscapedText(TextLineEvent(sh), <<"\n">>)
                      ELSE TextLineEvent(sh),
                      sh),
            sh),
          IF sh.content = "markup" THEN "dispatch" ELSE "body")

\* _ProcessBody, lines 220-226: the end of the document.
EndBody ==
  /\ Running /\ pc = "body"
  /\ Step(IF conv.code_block_depth # 0
          THEN HandleCodeBlockClose(HandleText(LineEvent("end"), conv.code_block_lines))
          ELSE LineEvent("end"),
          "done", ctx)

\* The text a rule's match stands for when it goes out as literal text.
PipeText(pipecount) == Repeat("||", pipecount \div 2)
EqualsText(leftequalcount) == Repeat("=", leftequalcount)
TagMarkup(tag) == IF tag = "Bold" THEN "*" ELSE IF tag = "Italic" THEN "_" ELSE "~~"

Dispatching == pc \in {"dispatch", "match"}

\* _ProcessLine, lines 334-347, with the HRule rule of LINE_FORMAT_RE.
\* _ProcessMatch, lines 503-512: a raw plugin on top of the plugin stack
\* takes every match but PluginEnd as text.
HRuleLine ==
  /\ Running /\ pc = "dispatch" /\ ctx = <<>>
  /\ Step(_CloseTableRow(IF _ConsumeTextForPlugin(conv)
                         THEN HandleText(MatchEvent("HRule", ""), <<"----">>)
                         ELSE HandleHRule(MatchEvent("HRule", ""))),
          "body", ctx)

\* _HandleHeading up to its _ProcessMatch over the heading text.
\* _HandleHeading, lines 549-554: the "=" at the end of the stripped match.
RECURSIVE RightEqualCount(_)
RightEqualCount(match) ==
  IF match = <<>> \/ Last(match) # "=" THEN 0 ELSE 1 + RightEqualCount(Front(match))
\* _HandleHeading, lines 542-547: the "=" at its start.
RECURSIVE LeftEqualCount(_)
LeftEqualCount(match) ==
  IF match = <<>> \/ Head(match) # "=" THEN 0 ELSE 1 + LeftEqualCount(Tail(match))
\* A heading line with these numbers of "=" around its text.
HeadingMatch(left, right) == EqualsText(left) \o <<"x">> \o EqualsText(right)

HeadingOpen(match) ==
  /\ Running /\ pc = "dispatch" /\ ctx = <<>>
  /\ LET m == MatchEvent("Heading", match)
         leftequalcount == LeftEqualCount(Strip(match))
         header_level == IF leftequalcount > 6 THEN 0 ELSE leftequalcount
     IN IF _ConsumeTextForPlugin(conv)
        THEN Step(_CloseTableRow(HandleText(m, match)), "body", ctx)
        ELSE Step(IF header_level # 0 THEN HandleHeaderOpen(m, header_level) ELSE m,
                  "match",
                  <<[rule |-> "Heading", arg |-> header_level, width |-> 0]>>)

\* _HandleHeading after its _ProcessMatch, then the _CloseTableRow that ends
\* _ProcessLine.
HeadingClose ==
  /\ Running /\ pc \in {"match", "eol"} /\ InHeading(ctx)
  /\ Step(_CloseTableRow(IF Last(ctx).arg # 0
                         THEN HandleHeaderClose(ReturnEvent("Heading"), Last(ctx).arg)
                         ELSE ReturnEvent("Heading")),
          "body", <<>>)

\* _ProcessMatch: text between two matches, or after the last one.
Text(chunk) ==
  /\ Running /\ Dispatching
  /\ Inline(Flush(MatchEvent("Text", chunk), <<chunk>>))

\* _HandleBold, _HandleItalic, _HandleStrikethrough.
Tag(tag) ==
  /\ Running /\ Dispatching
  /\ LET m == MatchEvent(tag, "")
     IN Inline(IF _ConsumeTextForPlugin(conv) THEN HandleText(m, <<TagMarkup(tag)>>)
               ELSE _HandleTag(m, tag))

\* _HandlePlugin
Plugin(plugin_id, params, has_end) ==
  /\ Running /\ Dispatching
  /\ Len(conv.plugin_stack) < MaxDepth
  /\ LET m == MatchEvent("Plugin", plugin_id)
     IN Inline(IF _ConsumeTextForPlugin(conv) THEN HandleText(m, PluginMatch(plugin_id, params, has_end))
               ELSE _HandlePlugin(m, plugin_id, params, has_end))

\* _HandleVariable: the match is the name between the "%%" marks.
Variable(name) ==
  /\ Running /\ Dispatching
  /\ LET m == MatchEvent("Variable", name)
     IN Inline(IF _ConsumeTextForPlugin(conv) THEN HandleText(m, <<name>>)
               ELSE _HandleVariable(m, name))

\* An inline rule whose match is handled by Handle unless a raw plugin is open.
IssueLink(match) ==
  /\ Running /\ Dispatching
  /\ LET m == MatchEvent("IssueLink", match)
     IN Inline(IF _ConsumeTextForPlugin(conv) THEN HandleText(m, match)
               ELSE _HandleIssueLink(m, match))

RevisionLink(match) ==
  /\ Running /\ Dispatching
  /\ LET m == MatchEvent("RevisionLink", match)
     IN Inline(IF _ConsumeTextForPlugin(conv) THEN HandleText(m, match)
               ELSE _HandleRevisionLink(m, match))

Url(match) ==
  /\ Running /\ Dispatching
  /\ LET m == MatchEvent("Url", match)
     IN Inline(IF _ConsumeTextForPlugin(conv) THEN HandleText(m, match)
               ELSE _HandleUrl(m, match))

UrlBracket(match) ==
  /\ Running /\ Dispatching
  /\ LET m == MatchEvent("UrlBracket", match)
     IN Inline(IF _ConsumeTextForPlugin(conv) THEN HandleText(m, match)
               ELSE _HandleUrlBracket(m, match))

\* _HandleInlineCode and _HandleInlineCode2: the match is the code.
InlineCode(match) ==
  /\ Running /\ Dispatching
  /\ LET m == MatchEvent("InlineCode", match)
     IN Inline(IF _ConsumeTextForPlugin(conv) THEN HandleText(m, match)
               ELSE HandleInlineCode(m, match))

\* _HandlePluginEnd: the one rule that is handled while a raw plugin is open.
PluginEnd(plugin_id) ==
  /\ Running /\ Dispatching
  /\ Inline(_HandlePluginEnd(MatchEvent("PluginEnd", plugin_id), plugin_id))

\* _HandleTableCell up to its _ProcessMatch over the cell's text.  The cell's
\* text ends at the next "||", so no cell starts inside a cell.
TableCellBegin(pipecount) ==
  /\ Running /\ Dispatching /\ ~InCell(ctx)
  /\ LET m == MatchEvent("TableCell", pipecount)
     IN IF _ConsumeTextForPlugin(conv)
        THEN Inline(HandleText(m, PipeText(pipecount) \o <<"x">>))
        ELSE Step(HandleTableCellBegin(m, pipecount), "match",
                  Append(ctx, [rule |-> "TableCell", arg |-> pipecount, width |-> 0]))

\* _HandleTableCell after its _ProcessMatch.
TableCellEnd ==
  /\ Running /\ pc = "match" /\ InCell(ctx)
  /\ Step(HandleTableCellEnd(ReturnEvent("TableCell"), Last(ctx).arg, Last(ctx).width),
          "match", Front(ctx))

\* _HandleTableRowEnd: the match reaches the end of the text, so the
\* enclosing _ProcessMatch has nothing more to find.
TableRowEnd ==
  /\ Running /\ Dispatching /\ ~InCell(ctx)
  /\ LET m == MatchEvent("TableRowEnd", "")
     IN Step(IF _ConsumeTextForPlugin(conv) THEN HandleText(m, <<"||">>) ELSE _HandleTableRowEnd(m),
             "eol", ctx)

\* _ProcessLine, line 347: the line's matches are done.
EndLine ==
  /\ Running /\ pc \in {"match", "eol"} /\ ctx = <<>>
  /\ Step(_CloseTableRow(ReturnEvent("Line")), "body", ctx)

(***************************************************************************)
(* Three families of documents.  Each is the same converter, reading       *)
(* documents written with a part of the markup.                            *)
(***************************************************************************)
Shape(indent_pos, list_type, after, content) ==
  [indent_pos |-> indent_pos, list_type |-> list_type, after |-> after, content |-> content]

PlainLine == Shape(0, "blockquote", "char", "text")
MarkupLine == Shape(0, "blockquote", "char", "markup")

\* Spec: lines, lists, code fences and the three span markers.
ListLines ==
  { sh \in LineShapes : sh.indent_pos > 0 /\ sh.content # "markup" /\ sh.after # "char" }

Init == InitWith(MaxSteps)

Next ==
  \/ ProcessLineFenceOpen
  \/ ProcessLineFenceClose
  \/ ProcessLineCollect
  \/ ProcessLineBlank
  \/ \E sh \in ListLines \cup {PlainLine, MarkupLine} : ProcessLineStart(sh)
  \/ EndBody
  \/ \E chunk \in {"x", " "} : Text(chunk)
  \/ \E tag \in {"Bold", "Italic", "Strikethrough"} : Tag(tag)
  \/ EndLine

Spec == Init /\ [][Next]_vars

\* SpecPlugin: plugin tags, with headings, rules, a list and a code fence
\* around them.
PluginIds == { <<"", "b">>, <<"", "code">>, <<"wiki", "comment">>, <<"", "foo">> }
OpenTags ==
  { <<id, NoParams, FALSE>> : id \in PluginIds }
    \cup { <<<<"", "b">>, [x \in {"title", "onclick"} |-> "v"], TRUE>> }

InitPlugin == InitWith(MaxPluginSteps)

NextPlugin ==
  \/ ProcessLineFenceOpen
  \/ ProcessLineBlank
  \/ \E sh \in {MarkupLine, Shape(1, "bullet", "space", "text")} : ProcessLineStart(sh)
  \/ EndBody
  \/ HRuleLine
  \/ \E leftequalcount \in {1, 7} :
       HeadingOpen(HeadingMatch(leftequalcount, leftequalcount))
  \/ HeadingClose
  \/ Text("x")
  \/ Tag("Bold")
  \/ \E tag \in OpenTags : Plugin(tag[1], tag[2], tag[3])
  \/ \E plugin_id \in PluginIds : PluginEnd(plugin_id)
  \/ EndLine

SpecPlugin == InitPlugin /\ [][NextPlugin]_vars

\* SpecTable: tables.
InitTable == InitWith(MaxTableSteps)

NextTable ==
  \/ ProcessLineBlank
  \/ \E sh \in {PlainLine, MarkupLine} : ProcessLineStart(sh)
  \/ EndBody
  \/ Text("x")
  \/ Tag("Bold")
  \/ \E pipecount \in {2, 4} : TableCellBegin(pipecount)
  \/ TableCellEnd
  \/ TableRowEnd
  \/ EndLine

SpecTable == InitTable /\ [][NextTable]_vars

\* SpecList: lines of text and list items at the indentations of
\* NUMERIC_LIST: numeric items written "1." as there or "# ", and bullets.
NumericLines ==
  { NUMERIC_LIST[i] : i \in 1..Len(NUMERIC_LIST) }
    \cup { [NUMERIC_LIST[i] EXCEPT !.after = "space"] : i \in 2..Len(NUMERIC_LIST) }
    \cup { [NUMERIC_LIST[i] EXCEPT !.after = "space", !.list_type = "bullet"] :
             i \in 2..Len(NUMERIC_LIST) }

InitList == InitWith(MaxListSteps)

NextList ==
  \/ ProcessLineBlank
  \/ \E sh \in NumericLines : ProcessLineStart(sh)
  \/ EndBody

SpecList == InitList /\ [][NextList]_vars

(***************************************************************************)
(* Convert on a document given line by line.  A line is a sequence of       *)
(* chunks with its newline as the last one; the last line of a document may *)
(* have none.                                                              *)
(***************************************************************************)
PRAGMA_NAMES == <<"summary", "labels", "sidebar">>

\* PragmaMatch, were PRAGMA_NAMES to hold "summary" only.
PragmaMatchSummary(line) == line # <<>> /\ line[1] = "#summary"

\* PRAGMA_RE.match(line): "#" and one of the names at the start of the line.
PragmaMatch(line) ==
  line # <<>> /\ \E i \in 1..Len(PRAGMA_NAMES) : line[1] = "#" \o PRAGMA_NAMES[i]
\* pragma_match.groups(): the name, and the rest of the line up to its newline.
PragmaGroups(line) ==
  [pragma_type |-> PRAGMA_NAMES[CHOOSE i \in 1..Len(PRAGMA_NAMES) :
                                  line[1] = "#" \o PRAGMA_NAMES[i]],
   pragma_value |-> IF Last(line) = "\n" THEN Front(Tail(line)) ELSE Tail(line)]

\* PragmaHandler.HandlePragma: a warning, whatever the pragma is.
HandlePragma(m, pragma_type, pragma_value) ==
  Warn(Emit(m, [ev |-> "Pragma", type |-> pragma_type, value |-> pragma_value]),
       CASE pragma_type = "summary" -> "A summary pragma was used for this wiki"
         [] pragma_type = "sidebar" -> "A sidebar pragma was used for this wiki"
         [] OTHER -> "The following pragma has been ignored")

WikiLines ==
  { <<"#summary", " ", "a", "\n">>, <<"#labels", "\n">>, <<"#sidebar", " ", "s", "\n">>,
    <<"#foo", "\n">>, <<"\n">>, <<" ", "\n">>, <<"x", "\n">>, <<" ", "*">> }

\* input_stream.readlines(): every line but the last ends with a newline.
Documents ==
  { d \in UNION { [1..n -> WikiLines] : n \in 0..MaxLines } :
      \A i \in 1..(Len(d) - 1) : Last(d[i]) = "\n" }

\* "for line in input_lines[input_line - 1:]" has a line to give.
HasLine == input_line <= Len(input_lines)
CurrentLine == input_lines[input_line]

\* The shape (see LineShapes) of a line that is not blank.
ShapeOf(line) ==
  LET indent_pos == Len(line) - Len(LStrip(line))
      rest == SubSeq(line, indent_pos + 1, Len(line))
      after == IF Len(rest) = 1 THEN "none"
               ELSE IF rest[2] = "\n" THEN "newline"
               ELSE IF rest[2] = " " THEN "space" ELSE "char"
  IN IF indent_pos = 0 \/ rest[1] \notin {"*", "#"} THEN PlainLine
     ELSE Shape(indent_pos, IF rest[1] = "*" THEN "bullet" ELSE "numeric", after,
                IF after \in {"none", "newline"} THEN "none" ELSE "text")

\* A step of _ExtractPragmas or of _MoveToMain, or Convert's end.
Phase(m, next_pc, next_line) ==
  /\ CommitAt(m, next_pc, ctx, 0, 0, next_line)
  /\ consumed' = (IF next_line = input_line THEN consumed
                  ELSE Append(consumed, input_line))
  /\ UNCHANGED first_line

\* _ExtractPragmas, lines 144-159: a line that PRAGMA_RE matches.
ExtractPragma ==
  /\ Running /\ pc = "pragmas"
  /\ HasLine /\ PragmaMatch(CurrentLine)
  /\ Phase(HandlePragma(LineEvent("pragma"),
                        PragmaGroups(CurrentLine).pragma_type,
                        Strip(PragmaGroups(CurrentLine).pragma_value)),
           "pragmas", input_line + 1)

\* _ExtractPragmas, lines 146-148 and 161: the first line that is no pragma,
\* or the end of the lines.
ExtractPragmasReturn ==
  /\ Running /\ pc = "pragmas"
  /\ ~(HasLine /\ PragmaMatch(CurrentLine))
  /\ Phase(ReturnValue(Machine, "_ExtractPragmas", input_line), "main", input_line)

\* _MoveToMain, lines 172-178: a line of whitespace.
SkipBlankLine ==
  /\ Running /\ pc = "main"
  /\ HasLine /\ Strip(CurrentLine) = <<>>
  /\ Phase(LineEvent("skipped"), "main", input_line + 1)

\* _MoveToMain, lines 173-175 and 180, and _ProcessBody up to its loop
\* (196-204).
MoveToMainReturn ==
  /\ Running /\ pc = "main"
  /\ ~(HasLine /\ Strip(CurrentLine) = <<>>)
  /\ CommitAt([ReturnValue(Machine, "_MoveToMain", input_line) EXCEPT !.c = BodyInit(conv)],
              "body", <<>>, 0, 0, input_line)
  /\ first_line' = TRUE
  /\ UNCHANGED consumed

\* _ProcessBody's loop gives _ProcessLine the line at input_line.
ReadBlankLine == HasLine /\ Strip(CurrentLine) = <<>> /\ ProcessLineBlank
ReadLine == HasLine /\ Strip(CurrentLine) # <<>> /\ ProcessLineStart(ShapeOf(CurrentLine))
EndOfLines == ~HasLine /\ EndBody

NOT_ALL_LINES == "Processing completed, but not all lines were processed"

\* Convert, lines 124-131: the count of the lines left over.
ConvertReturn ==
  /\ Running /\ pc = "done"
  /\ Phase(IF Len(input_lines) - input_line + 1 # 0
           THEN Warn(ReturnValue(Machine, "_ProcessBody", input_line), NOT_ALL_LINES)
           ELSE ReturnValue(Machine, "_ProcessBody", input_line),
           "returned", input_line)

\* SpecConvert: Convert from its first statement on the documents of
\* Documents.  A document of n lines takes n + 4 steps at most.
InitConvert == InitAt(MaxLines + 4, "pragmas", Documents)

NextConvert ==
  \/ ExtractPragma
  \/ ExtractPragmasReturn
  \/ SkipBlankLine
  \/ MoveToMainReturn
  \/ ReadBlankLine
  \/ ReadLine
  \/ EndOfLines
  \/ ConvertReturn

SpecConvert == InitConvert /\ [][NextConvert]_vars

\* _ProcessLine, lines 246-347, for a line that no rule matches, outside code
\* blocks: a blank line, or the line's text without the white space around it.
_ProcessLine(m, line, is_first_line) ==
  IF Strip(line) = <<>>
  THEN HandleParagraphBreak(
         IF ~_ConsumeTextForPlugin(m.c)
         THEN CloseTable(_CloseTags(_SetCurrentList(
                Emit(m, [ev |-> "Line", kind |-> "blank"]), 0, " ")))
         ELSE Emit(m, [ev |-> "Line", kind |-> "blank"]))
  ELSE _CloseTableRow(
         Flush(EnterLine(IF ~is_first_line
                         THEN HandleEscapedText(
                                Emit(m, [ev |-> "Line", kind |-> "text",
                                         sh |-> ShapeOf(line)]), <<"\n">>)
                         ELSE Emit(m, [ev |-> "Line", kind |-> "text",
                                       sh |-> ShapeOf(line)]),
                         ShapeOf(line)),
               Strip(line)))

\* _ProcessBody, lines 205-218: the loop over the lines.
RECURSIVE _ProcessBody(_, _, _)
_ProcessBody(m, lines, is_first_line) ==
  IF lines = <<>> \/ m.err THEN m
  ELSE _ProcessBody(_ProcessLine(m, Head(lines), is_first_line), Tail(lines), FALSE)

\* _MoveToMain, lines 172-180: the lines from the first that is not blank.
RECURSIVE _MoveToMain(_)
_MoveToMain(lines) ==
  IF lines # <<>> /\ Strip(Head(lines)) = <<>> THEN _MoveToMain(Tail(lines)) ELSE lines

\* Convert, lines 105-131, from its first statement to its last, on a document
\* that has no pragma and no markup.
Convert ==
  /\ Running /\ pc = "pragmas"
  /\ ~(HasLine /\ PragmaMatch(CurrentLine))
  /\ Phase(_ProcessBody([ReturnValue(Machine, "_ExtractPragmas", input_line)
                           EXCEPT !.c = BodyInit(conv)],
                        _MoveToMain(input_lines), TRUE),
           "returned", Len(input_lines) + 1)

\* SpecPlain: Convert on the documents whose lines have no markup and no
\* indentation.
PlainLines ==
  { <<"x", "\n">>, <<"a", "*", "b", "\n">>, <<"a", "_", "b", " ", "\n">>,
    <<"x", "  ", "\n">>, <<"\n">>, <<" ", "\n">>, <<"x">> }
PlainDocuments ==
  { d \in UNION { [1..n -> PlainLines] : n \in 0..MaxPlainLines } :
      \A i \in 1..(Len(d) - 1) : Last(d[i]) = "\n" }

InitPlain == InitAt(1, "pragmas", PlainDocuments)
NextPlain == Convert
SpecPlain == InitPlain /\ [][NextPlain]_vars

\* SpecInline: lines of plugin tags with parameters and of the inline rules
\* that write a substitute for their match, with and without a project name.
VariableNames == {"title", "username", "project", "other"}
InlineTags ==
  { <<<<"", "b">>, [x \in {"title"} |-> "T"]>>,
    <<<<"", "i">>, [x \in {"title"} |-> ""]>>,
    <<<<"", "i">>, [x \in {"username"} |-> "U"]>>,
    <<<<"", "code">>, NoParams>> }

\* Matches of the issue and revision rules, one character a chunk.
IssueMatches ==
  { <<"i", "s", "s", "u", "e", " ", "7">>,
    <<"i", "s", "s", "u", "e", " ", "8">>,
    <<"b", "u", "g", " ", "7">> }
RevisionMatches ==
  { <<"r", "5">>, <<"r", "e", "v", "i", "s", "i", "o", "n", " ", "5">> }
IssueMaps ==
  { [x \in {} |-> <<>>],
    [x \in {<<"7">>} |-> <<"https://", "github.com/x/issues", "/", "9">>] }
\* Targets and descriptions of links.
LinkTargets ==
  { <<"http://", "a">>, <<"http://", "a", ".png">>, <<"ftp://", "a">> }
LinkDescriptions ==
  { <<"d", "_">>, <<"http://", "b", ".png">>, <<" ">> }
UrlBrackets ==
  { <<"[">> \o t \o <<"]">> : t \in LinkTargets }
    \cup { <<"[">> \o t \o <<" ">> \o d \o <<"]">> :
             t \in LinkTargets, d \in LinkDescriptions }

\* Heading lines: the numbers of "=" differ on the two sides, and one line has
\* nothing else.
HeadingMatches ==
  { HeadingMatch(left, right) : left \in {1, 2, 6, 7}, right \in {1, 2} }
    \cup { <<"=", "=", "=">>, <<"=", "x", "=", " ">> }

InlineFmts(project) ==
  { [FmtInit EXCEPT !.project = project, !.issue_map = im, !.symmetric_headers = sh] :
      im \in IssueMaps, sh \in BOOLEAN }

InitInline ==
  \E project \in {"", "proj"} :
    InitConfigured(MaxInlineSteps, "body", {<<>>},
                   { [ConvInit EXCEPT !.project = project] }, InlineFmts(project))

NextInline ==
  \/ ProcessLineStart(MarkupLine)
  \/ \E tag \in InlineTags : Plugin(tag[1], tag[2], FALSE)
  \/ \E tag \in InlineTags : PluginEnd(tag[1])
  \/ \E name \in VariableNames : Variable(name)
  \/ \E match \in IssueMatches : IssueLink(match)
  \/ \E match \in RevisionMatches : RevisionLink(match)
  \/ \E match \in LinkTargets : Url(match)
  \/ \E match \in UrlBrackets : UrlBracket(match)
  \/ \E match \in HeadingMatches : HeadingOpen(match)
  \/ HeadingClose
  \/ EndLine

SpecInline == InitInline /\ [][NextInline]_vars

\* SpecEmbed: wiki:video tags and wiki:comment tags, with text that has a
\* single quote, in Markdown and inside an HTML tag.
VideoParams ==
  { NoParams,
    [x \in {"foo"} |-> "1"],
    [x \in {"url"} |-> "http://youtube.com/watch?v=abc"],
    [x \in {"url", "width"} |->
       IF x = "url" THEN "http://youtube.com/v/abc" ELSE "1"],
    [x \in {"url", "foo"} |->
       IF x = "url" THEN "http://youtube.com/watch?v=a!c" ELSE "1"],
    [x \in {"url"} |-> "http://youtube.com/watch?v=abc%0A"],
    [x \in {"url"} |-> "http://youtube.com/v/abc%0A"],
    [x \in {"url"} |-> ""] }
EmbedTags ==
  { <<<<"wiki", "video">>, params, TRUE>> : params \in VideoParams }
    \cup { <<<<"wiki", "comment">>, NoParams, FALSE>>,
           <<<<"", "b">>, NoParams, FALSE>> }

\* The codes of inline code: up to MaxCode characters, ticks among them.
RECURSIVE CodesOfLen(_)
CodesOfLen(n) ==
  IF n = 0 THEN {<<>>}
  ELSE { <<ch>> \o code : ch \in {"x", Tick}, code \in CodesOfLen(n - 1) }
Codes == UNION { CodesOfLen(n) : n \in 1..MaxCode }

InitEmbed == InitWith(MaxEmbedSteps)

NextEmbed ==
  \/ ProcessLineBlank
  \/ \E sh \in {MarkupLine, PlainLine} : ProcessLineStart(sh)
  \/ \E chunk \in {"x", "'"} : Text(chunk)
  \/ \E tag \in EmbedTags : Plugin(tag[1], tag[2], tag[3])
  \/ \E code \in Codes : InlineCode(code)
  \/ \E plugin_id \in {<<"wiki", "comment">>, <<"", "b">>} : PluginEnd(plugin_id)
  \/ EndLine

SpecEmbed == InitEmbed /\ [][NextEmbed]_vars

\* Convert, lines 105-131, called again on the Converter and the
\* FormattingHandler of a finished conversion: _ProcessBody (196-203) sets the
\* converter's fields anew, the formatter's are set in its __init__ only.
ConvertAgain ==
  /\ Running /\ pc = "done"
  /\ CommitAt([Emit(Machine, [ev |-> "Call", rule |-> "Convert"]) EXCEPT !.c = BodyInit(conv)],
              "body", <<>>, 0, 0, 1)
  /\ first_line' = TRUE
  /\ consumed' = <<>>

\* SpecReuse: documents of the three families, converted one after the
\* other by the same objects.
InitReuse == InitWith(MaxReuseSteps)

NextReuse ==
  \/ Next
  \/ NextPlugin
  \/ NextTable
  \/ ConvertAgain

SpecReuse == InitReuse /\ [][NextReuse]_vars

(***************************************************************************)
(* The calls of GitHubService._PerformHttpRequest.  A step is one exchange *)
(* with the server: the request itself, or the reading of the rate_limit   *)
(* resource after a failure or after a sleep.                              *)
(***************************************************************************)
\* The variables of the conversion engine.
wiki_vars ==
  <<conv, fmt, pc, input_lines, input_line, consumed, ctx, first_line, events,
    borders, header_cells, row_ends, headers, scenario_line, list_closes, html_tags>>

HttpStep(h) ==
  /\ http' = h
  /\ budget' = budget - 1
  /\ UNCHANGED <<wiki_vars, exporter>>

\* _GetRemainingRequests has read content.
Observe(h, content) ==
  [h EXCEPT !.observed = Append(@, _GetRemainingRequests(content))]

\* _PerformHttpRequest, lines 132-136: the call begins.
PerformHttpRequest ==
  /\ Running /\ http.pc \in {"idle", "returned"}
  /\ HttpStep([HttpInit EXCEPT !.pc = "loop"])

\* Lines 138-142: one request is sent; a successful response is returned.
HttpRequest(response) ==
  /\ Running /\ http.pc = "loop"
  /\ HttpStep([http EXCEPT !.requests = @ + 1,
                           !.response = response,
                           !.attempts = @ + 1,
                           !.observed = <<>>,
                           !.pc = IF _CheckSuccessful(response) THEN "returned" ELSE "failed",
                           !.result = IF _CheckSuccessful(response) THEN response ELSE @])

\* Lines 143-145, up to the first sleep: the remaining count is read after a
\* failed request.
RequestLimitReached(content) ==
  /\ Running /\ http.pc = "failed"
  /\ HttpStep(IF _RequestLimitReached(content)
              THEN Throttled(Observe(http, content))
              ELSE LoopTest(Observe(http, content)))

\* _WaitForApiThrottlingToEnd, lines 216-225: one sleep, then the remaining
\* count is read again.
WaitForApiThrottlingToEnd(content) ==
  /\ Running /\ http.pc = "waiting"
  /\ HttpStep(IF ~_RequestLimitReached(content)
              THEN LoopTest(Observe(http, content))
              ELSE Observe(http, content))

\* SpecHttp: calls of _PerformHttpRequest against a server that answers
\* with any of Responses and reports any of Contents as its rate limit.
Responses ==
  { [status |-> 200], [status |-> 299], [status |-> 300], [status |-> 404],
    [reason |-> "no status"] }
Contents ==
  { [rate |-> [remaining |-> 0]], [rate |-> [remaining |-> 1]],
    [rate |-> [limit |-> 60]], [message |-> "Not Found"] }

InitHttp == InitWith(MaxHttpSteps)

NextHttp ==
  \/ PerformHttpRequest
  \/ \E response \in Responses : HttpRequest(response)
  \/ \E content \in Contents : RequestLimitReached(content)
  \/ \E content \in Contents : WaitForApiThrottlingToEnd(content)

SpecHttp == InitHttp /\ [][NextHttp]_vars

(***************************************************************************)
(* The issue exporter: Init, then Start, a step of which is one round of   *)
(* its loop over the issues of the export file.                            *)
(***************************************************************************)
ExportStep(e) ==
  /\ exporter' = e
  /\ UNCHANGED <<wiki_vars, http, budget>>

\* IssueExporter.Init, lines 600-602.
ExporterInitCall ==
  /\ exporter.pc = "made"
  /\ ExportStep(_GetAllPreviousIssues(exporter))

\* Start, lines 747-755: the counters are reset.
Start ==
  /\ exporter.pc = "ready"
  /\ ExportStep([exporter EXCEPT !.issue_total = Len(exporter.issue_json_data),
                                 !.comment_total = 0, !.issue_number = 0,
                                 !.comment_number = 0, !.skipped_issues = 0,
                                 !.pc = "loop"])

\* Start, lines 757-798: one round of the loop, for the next issue.
StartIssue ==
  /\ exporter.pc = "loop"
  /\ exporter.issue_number < Len(exporter.issue_json_data)
  /\ LET issue == exporter.issue_json_data[exporter.issue_number + 1]
     IN ExportStep(
          IF issue.title \in DOMAIN exporter.previously_created_issues
          THEN SkipIssue([exporter EXCEPT !.issue_number = @ + 1], issue)
          ELSE PostIssue([exporter EXCEPT !.issue_number = @ + 1], issue))

\* Start, line 800: the loop is over.
StartFinished ==
  /\ exporter.pc = "loop"
  /\ exporter.issue_number >= Len(exporter.issue_json_data)
  /\ ExportStep([exporter EXCEPT !.pc = "finished"])

\* SpecExport: the export files of up to MaxIssues issues, two of which may
\* have the same title, toward a service that holds none, one or two issues.
CommentLists ==
  { <<>>, <<[content |-> "c1"]>>,
    <<[content |-> "c1"], [content |-> "c2", deletedBy |-> "u"], [content |-> "c3"]>> }
SourceIssues ==
  { [title |-> t, items |-> <<[content |-> "description"]>> \o cs, state |-> st] :
      t \in {"a", "b"}, cs \in CommentLists, st \in {"open", "closed"} }
    \cup { [title |-> "a", items |-> <<[content |-> "description"]>> \o cs] :
             cs \in CommentLists }
ExportFiles == UNION { [1..n -> SourceIssues] : n \in 0..MaxIssues }
Destinations ==
  { <<<<>>, <<>>>>,
    <<<<[title |-> "a", number |-> 1, comments |-> 1]>>, <<>>>>,
    <<<<>>, <<[title |-> "a", number |-> 1, comments |-> 0]>>>>,
    <<<<[title |-> "b", number |-> 1, comments |-> 3]>>, <<>>>>,
    <<<<[title |-> "a", number |-> 2, comments |-> 2]>>,
      <<[title |-> "b", number |-> 1, comments |-> 0]>>>>,
    <<<<[title |-> "a", number |-> 2, comments |-> 0]>>,
      <<[title |-> "a", number |-> 1, comments |-> 1]>>>> }

InitExport ==
  /\ InitEngine(0, "returned", {<<>>}, {ConvInit}, {FmtInit})
  /\ http = HttpInit
  /\ \E file \in ExportFiles, dest \in Destinations :
       exporter = ExporterInit(file, dest[1], dest[2])

NextExport ==
  \/ ExporterInitCall
  \/ Start
  \/ StartIssue
  \/ StartFinished

SpecExport == InitExport /\ [][NextExport]_vars

(***************************************************************************)
(* Properties.                                                             *)
(***************************************************************************)
\* The plugin ids _HandlePlugin and _HandlePluginEnd have a handler for.
SPECIAL_PLUGINS ==
  { <<"g", "plusone">>, <<"wiki", "comment">>, <<"wiki", "gadget">>,
    <<"wiki", "video">>, <<"wiki", "toc">> }
IsKnownPlugin(plugin_id) == IsAllowedHtmlTag(plugin_id) \/ plugin_id \in SPECIAL_PLUGINS

\* The step that made log began with the match of rule.
IsMatch(log, rule) == log # <<>> /\ log[1].ev = "Match" /\ log[1].rule = rule
\* The step that made log passed text to HandleEscapedText.
HasEscapedText(log, text) ==
  \E i \in 1..Len(log) : log[i].ev = "EscapedText" /\ log[i].text = text
HasWarning(log, what) ==
  \E i \in 1..Len(log) : log[i].ev = "Warning" /\ log[i].what = what

\* C1: Convert runs to completion on every document; no exception leaves it.
C1_NeverAborts == pc # "crashed"

\* C2: _code_block_depth is never negative, whatever "{{{" and "}}}" lines
\* the document holds.
C2_DepthNonNegative == conv.code_block_depth >= 0

\* C3: _in_html is never negative: no HandleHtmlClose runs without a
\* HandleHtmlOpen before it.
C3_HtmlDepthNonNegative == fmt.in_html >= 0

\* C4: _indents is strictly increasing in indent position from bottom to top.
\* _SetCurrentList alone changes _indents, so this is stated of every state.
C4_IndentsIncreasing ==
  \A i \in 1..(Len(conv.indents) - 1) : conv.indents[i][1] < conv.indents[i + 1][1]

\* A line has just nested a list in a list.
C4_Witness ==
  /\ events # <<>> /\ events[1].ev = "Line" /\ events[1].kind = "text"
  /\ pc = "body"
  /\ Len(conv.indents) >= 2

\* C5: once a blank line outside code blocks is processed, no span is open,
\* no format buffer is left, the list stack is empty, no table is open, and
\* a paragraph break was emitted.
C5_BlankLineClosesAll ==
  (events # <<>> /\ events[1].ev = "Line" /\ events[1].kind = "blank" /\ pc = "body")
    => /\ conv.open_tags = <<>>
       /\ fmt.format_buffer = <<>>
       /\ conv.indents = <<>>
       /\ conv.table_columns = <<>>
       /\ conv.table_column = 0
       /\ Count(events, "ParagraphBreak") = 1

\* C6: a marker that closes a span pops the buffer that was pushed when that
\* span was opened.
C6_ClosePopsOwnBuffer ==
  \A i \in 1..Len(events) :
    events[i].ev = "FormatClose" => events[i].opened_by = events[i].kind

\* C7: while a raw plugin is on top of the plugin stack, a match that is not
\* the close tag of that plugin is written as text: no handler runs, no
\* warning is emitted, and the plugin stack and the open spans stay as they are.
C7_RawPluginTakesLiteral ==
  [][ ( /\ _ConsumeTextForPlugin(conv)
        /\ events' # <<>> /\ events'[1].ev = "Match"
        /\ ~(events'[1].rule = "PluginEnd"
             /\ events'[1].arg = Last(conv.plugin_stack).id) )
      => /\ \A i \in 2..Len(events') : events'[i].ev \in {"Text", "Write"}
         /\ conv'.plugin_stack = conv.plugin_stack
         /\ conv'.open_tags = conv.open_tags
         /\ Len(fmt'.format_buffer) = Len(fmt.format_buffer) ]_vars

\* C8 as stated: a close tag that does not match the top of the plugin stack
\* emits one warning and the marker "Unknown end tag for </id>" with the
\* tag's id, and leaves the plugin stack and _in_html as they are; a close
\* tag that matches pops one entry.
C8_MarkerNamesId ==
  [][ IsMatch(events', "PluginEnd")
      => IF conv.plugin_stack # <<>> /\ Last(conv.plugin_stack).id = events'[1].arg
         THEN conv'.plugin_stack = Front(conv.plugin_stack)
         ELSE /\ Count(events', "Warning") = 1
              /\ HasEscapedText(events', UnknownEndTag(IdText(events'[1].arg)))
              /\ conv'.plugin_stack = conv.plugin_stack
              /\ fmt'.in_html = fmt.in_html ]_vars

\* C8, amended: the marker names the tag without its namespace
\* ("</comment>" for "</wiki:comment>"); the rest is as stated.
C8_MarkerNamesTagWithoutNamespace ==
  [][ IsMatch(events', "PluginEnd")
      => IF conv.plugin_stack # <<>> /\ Last(conv.plugin_stack).id = events'[1].arg
         THEN conv'.plugin_stack = Front(conv.plugin_stack)
         ELSE /\ Count(events', "Warning") = 1
              /\ HasEscapedText(events', UnknownEndTag(events'[1].arg[2]))
              /\ conv'.plugin_stack = conv.plugin_stack
              /\ fmt'.in_html = fmt.in_html ]_vars

\* A namespaced close tag has just met another plugin on top of the stack.
C8_Witness ==
  /\ IsMatch(events, "PluginEnd")
  /\ events[1].arg[1] # ""
  /\ HasWarning(events, "Unknown/unmatched plugin end")
  /\ conv.plugin_stack # <<>>
  /\ pc = "match"

\* C9 as stated: a close tag with an unknown id emits one warning and leaves
\* the plugin stack as it is, on top of the stack or not.
C9_UnknownEndKeepsStack ==
  [][ (IsMatch(events', "PluginEnd") /\ ~IsKnownPlugin(events'[1].arg))
      => /\ Count(events', "Warning") = 1
         /\ conv'.plugin_stack = conv.plugin_stack ]_vars

\* C9, amended: a close tag with an unknown id emits one warning; it leaves
\* the plugin stack as it is when its id is not on top, and pops the top
\* entry when it is.
C9_UnknownEndPopsOnlyItsOwn ==
  [][ (IsMatch(events', "PluginEnd") /\ ~IsKnownPlugin(events'[1].arg))
      => /\ Count(events', "Warning") = 1
         /\ conv'.plugin_stack =
              IF conv.plugin_stack # <<>> /\ Last(conv.plugin_stack).id = events'[1].arg
              THEN Front(conv.plugin_stack)
              ELSE conv.plugin_stack ]_vars

\* The close tag of an unknown plugin has just met its open tag.
C9_Witness ==
  /\ IsMatch(events, "PluginEnd")
  /\ ~IsKnownPlugin(events[1].arg)
  /\ HasWarning(events, "Unknown but matching plugin end")
  /\ pc = "match"

\* C10: when a body row of a table ends, it has rendered as many cell
\* borders as the header row had cells.
C10_BodyRowRendersHeaderCells ==
  [][ (conv.table_column > 1 /\ conv'.table_column = 1) => borders' = header_cells ]_vars

\* C11: once the header row of a table is finalized, _table_columns stays as
\* it is until a blank line closes the table, whatever cells the body rows hold.
C11_ColumnsFrozenAfterHeader ==
  [][ (conv.table_column >= 1
       /\ ~(events'[1].ev = "Line" /\ events'[1].kind = "blank"))
      => conv'.table_columns = conv.table_columns ]_vars

\* The handler calls named by kinds that the step made, in order.  A call of
\* HandleText made by HandleEscapedText is part of that handler, not a call
\* of the driver.
RECURSIVE Calls(_, _, _)
Calls(log, i, kinds) ==
  IF i > Len(log) THEN <<>>
  ELSE (IF log[i].ev \in kinds /\ ~(log[i].ev = "Text" /\ i > 1 /\ log[i - 1].ev = "EscapedText")
        THEN <<log[i].ev>> ELSE <<>>) \o Calls(log, i + 1, kinds)

\* C12: when the document ends inside a "{{{" block, the collected lines go
\* out as a code block: HandleCodeBlockOpen, the text, HandleCodeBlockClose.
C12_OpenBlockAtEndIsWrittenWhole ==
  (events # <<>> /\ events[1].ev = "Line" /\ events[1].kind = "end"
     /\ conv.code_block_depth # 0)
    => Calls(events, 1, {"CodeBlockOpen", "Text", "CodeBlockClose"})
         = <<"CodeBlockOpen", "Text", "CodeBlockClose">>

\* C13: the "}}}" line that brings _code_block_depth to 0 makes one
\* HandleCodeBlockOpen, one HandleText with the collected lines and one
\* HandleCodeBlockClose, in that order, and leaves no collected line behind.
C13_FenceCloseWritesAndClears ==
  [][ (events'[1].ev = "Line" /\ events'[1].kind = "}}}" /\ conv'.code_block_depth = 0)
      => /\ Calls(events', 1, {"CodeBlockOpen", "Text", "CodeBlockClose"})
              = <<"CodeBlockOpen", "Text", "CodeBlockClose">>
         /\ \E i \in 1..Len(events') :
              /\ events'[i].ev = "Text"
              /\ events'[i - 1].ev # "EscapedText"
              /\ events'[i].text = conv.code_block_lines
         /\ conv'.code_block_lines = <<>> ]_vars

\* The first event of log, from index i on, that is ev of rule; 0 when none.
RECURSIVE IndexOf(_, _, _, _)
IndexOf(log, i, ev, rule) ==
  IF i > Len(log) THEN 0
  ELSE IF log[i].ev = ev /\ log[i].rule = rule THEN i
       ELSE IndexOf(log, i + 1, ev, rule)

\* What C14 says of the call of _SetCurrentList(indent_pos, list_type) that
\* found the list stack before, left it after and made the events of log.
SetCurrentListResult(before, after, log, indent_pos, list_type) ==
  LET closes == Count(log, "ListClose")
      kept == Len(before) - closes
      ret == IndexOf(log, 1, "Return", "_SetCurrentList")
  IN /\ ret # 0
     /\ kept >= 0
     /\ SubSeq(after, 1, kept) = SubSeq(before, 1, kept)
     /\ IF indent_pos = 0
        THEN /\ after = <<>>
             /\ Count(log, "ListOpen") = 0
             /\ log[ret].value = FALSE
        ELSE /\ after # <<>>
             /\ Last(after) = <<indent_pos, list_type>>
             /\ Len(after) \in {kept, kept + 1}
             /\ Count(log, "ListOpen") = 1
             /\ \A i \in 1..Len(log) : log[i].ev = "ListOpen" => log[i].level = Len(after)
             /\ log[ret].value = TRUE

\* C14: every call of _SetCurrentList returns, with the list stack, the
\* list-open and list-close events and the result the claim gives.
C14_SetCurrentListResult ==
  [][ IndexOf(events', 1, "Call", "_SetCurrentList") # 0
      => SetCurrentListResult(
           conv.indents, conv'.indents, events',
           events'[IndexOf(events', 1, "Call", "_SetCurrentList")].indent_pos,
           events'[IndexOf(events', 1, "Call", "_SetCurrentList")].list_type) ]_vars

\* ListClose comes before ListOpen in log.
ClosesBeforeOpening(log) ==
  \E i, j \in 1..Len(log) : i < j /\ log[i].ev = "ListClose" /\ log[j].ev = "ListOpen"

\* C15: in the conversion of NUMERIC_LIST each of the lines b and c opens one
\* list at a new level, line d closes the deepest level before its item is
\* opened, and the whole conversion makes two list-close events.
C15_NumericListClosesTwice ==
  /\ (scenario_line \in {2, 3} /\ events[1].ev = "Line" /\ events[1].kind = "text")
       => /\ Count(events, "ListOpen") = 1
          /\ \A i \in 1..Len(events) :
               events[i].ev = "ListOpen" => events[i].level = scenario_line - 1
  /\ (scenario_line = 4 /\ events[1].ev = "Line" /\ events[1].kind = "text")
       => ClosesBeforeOpening(events)
  /\ (scenario_line = 4 /\ pc = "done") => list_closes = 2

\* The handler call before the one at index i of log: writes and what
\* HandleText writes for another handler are skipped.
RECURSIVE CallBefore(_, _)
CallBefore(log, i) ==
  IF i <= 1 THEN "none"
  ELSE IF log[i - 1].ev \in {"Write", "Text"} THEN CallBefore(log, i - 1)
       ELSE log[i - 1].ev

\* The last step ran a line to its end (_ProcessLine returned).
LineEnded ==
  /\ events # <<>>
  /\ events[1].ev = "Return"
  /\ events[1].rule = "Line"

BufferTexts(format_buffer) == [i \in 1..Len(format_buffer) |-> format_buffer[i].text]

\* What the calls of log make of the buffers in stack when every write goes
\* to the innermost buffer and to the stream with no buffer: ok tells
\* whether each write of log went there, whether each closed span gave the
\* stripped text of the innermost buffer, and whether that text, when it is
\* not empty, was written next between the span's markers.
RECURSIVE Redirect(_, _, _)
Redirect(log, i, stack) ==
  IF i > Len(log) THEN [ok |-> TRUE, stack |-> stack]
  ELSE LET e == log[i]
       IN CASE e.ev = "FormatOpen" -> Redirect(log, i + 1, Append(stack, <<>>))
            [] e.ev = "Write" /\ e.to = "buffer" ->
                 IF stack = <<>> THEN [ok |-> FALSE, stack |-> stack]
                 ELSE Redirect(log, i + 1,
                               [stack EXCEPT ![Len(stack)] = @ \o e.text])
            [] e.ev = "Write" /\ e.to = "stream" ->
                 IF stack # <<>> THEN [ok |-> FALSE, stack |-> stack]
                 ELSE Redirect(log, i + 1, stack)
            [] e.ev = "FormatClose" ->
                 IF \/ stack = <<>>
                    \/ e.text # Strip(Last(stack))
                    \/ /\ TextLen(e.text) > 0
                       /\ \/ i = Len(log)
                          \/ log[i + 1].ev # "Write"
                          \/ log[i + 1].text
                               # <<HTML_FORMAT_TAGS[e.kind].Markdown>> \o e.text
                                   \o <<HTML_FORMAT_TAGS[e.kind].Markdown>>
                 THEN [ok |-> FALSE, stack |-> stack]
                 ELSE Redirect(log, i + 1, Front(stack))
            [] OTHER -> Redirect(log, i + 1, stack)

\* C17: with a span open every _Write goes to the innermost format buffer
\* and nothing reaches the output stream; the text of a span that closes goes
\* to the buffer below it, and to the output stream when it was the last one.
C17_WritesGoToInnermostBuffer ==
  [][ /\ Redirect(events', 1, BufferTexts(fmt.format_buffer)).ok
      /\ Redirect(events', 1, BufferTexts(fmt.format_buffer)).stack
           = BufferTexts(fmt'.format_buffer)
      /\ pc' # "crashed" => Len(conv'.open_tags) = Len(fmt'.format_buffer) ]_vars

\* A span closed inside another one: its text went to the buffer of the
\* span that is still open.
C17_Witness ==
  /\ Len(fmt.format_buffer) = 1
  /\ \E i \in 1..(Len(events) - 1) :
       /\ events[i].ev = "FormatClose"
       /\ TextLen(events[i].text) > 0
       /\ events[i + 1].ev = "Write"
       /\ events[i + 1].to = "buffer"
       /\ events[i + 1].text = <<"_">> \o events[i].text \o <<"_">>
       /\ fmt.format_buffer[1].text # <<>>

\* A call of Convert on objects that have converted a document has just
\* reached the first line of its body.
SecondConversionBegins ==
  /\ events # <<>>
  /\ events[1].ev = "Call"
  /\ events[1].rule = "Convert"

\* _has_written_text is read by _Write in HTML mode only, and the tag that
\* begins HTML mode sets it: what an earlier document left in it is never
\* read.  Every other field is read by the first call that meets it.
LeftForNextDocument(c, f) == <<c, [f EXCEPT !.has_written_text = FALSE]>>

\* C18: no state of one conversion is left for the next one: a conversion on
\* objects that have converted another document begins in the state a
\* conversion on new objects begins in, so it gives the same text and the
\* same warnings.
C18_NoStateFromEarlierDocument ==
  SecondConversionBegins
    => LeftForNextDocument(conv, fmt) = LeftForNextDocument(ConvInit, FmtInit)

\* The numbers 1 .. n in order.
UpTo(n) == [i \in 1..n |-> i]

\* C19: Convert ends on every document with each line passed over once, by
\* _ExtractPragmas, _MoveToMain or _ProcessBody: input_line is then the
\* number of lines plus one, and the warning about lines left over is never
\* given.
C19_EveryLineVisitedOnce ==
  /\ pc \in {"returned", "crashed"}
       => /\ input_line = Len(input_lines) + 1
          /\ consumed = UpTo(Len(input_lines))
  /\ ~HasWarning(events, NOT_ALL_LINES)

\* The line is a pragma Google Code knows.
IsRecognizedPragma(line) ==
  line # <<>> /\ line[1] \in {"#summary", "#labels", "#sidebar"}

\* The length of the longest run of pragmas the lines begin with.
RECURSIVE LeadingPragmas(_)
LeadingPragmas(lines) ==
  IF lines # <<>> /\ IsRecognizedPragma(Head(lines))
  THEN 1 + LeadingPragmas(Tail(lines))
  ELSE 0

\* C20: _ExtractPragmas consumes the longest run of recognized pragmas the
\* document begins with and nothing else: HandlePragma is called once, with
\* one warning, for each line of that run and for no other line, and the
\* value returned is the first line number plus the length of the run (the
\* first line number itself when the document does not begin with a pragma).
C20_LeadingPragmasOnly ==
  [][ /\ Count(events', "Pragma") > 0
           => /\ Count(events', "Pragma") = 1
              /\ Count(events', "Warning") = 1
              /\ input_line <= LeadingPragmas(input_lines)
              /\ consumed = UpTo(input_line - 1)
              /\ input_line' = input_line + 1
              /\ consumed' = UpTo(input_line)
      /\ (events'[1].ev = "Return" /\ events'[1].rule = "_ExtractPragmas")
           => /\ events'[1].value = 1 + LeadingPragmas(input_lines)
              /\ input_line' = 1 + LeadingPragmas(input_lines)
              /\ consumed' = UpTo(LeadingPragmas(input_lines)) ]_vars

\* _ExtractPragmas has returned 3 on a document of two pragmas, a line that
\* is none and a line that looks like one.
C20_Witness ==
  /\ events # <<>>
  /\ events[1].ev = "Return"
  /\ events[1].rule = "_ExtractPragmas"
  /\ events[1].value = 3
  /\ Len(input_lines) = 4
  /\ ~IsRecognizedPragma(input_lines[3])
  /\ IsRecognizedPragma(input_lines[4])

\* The line begins with "#" and a name, recognized or not.
IsPragmaShaped(line) ==
  line # <<>> /\ line[1] \in {"#summary", "#labels", "#sidebar", "#foo"}

\* C21: a leading line "#name rest" whose name is no recognized pragma is
\* consumed by _ExtractPragmas, with the warning "The following pragma has
\* been ignored".
C21_UnknownPragmaIsIgnoredWithWarning ==
  [][ ( /\ pc = "pragmas"
        /\ HasLine
        /\ IsPragmaShaped(CurrentLine)
        /\ ~IsRecognizedPragma(CurrentLine) )
        => /\ input_line' = input_line + 1
           /\ HasWarning(events', "The following pragma has been ignored") ]_vars

\* The plugins of plugin_stack that have a parameter called name.
Holders(plugin_stack, name) ==
  { i \in 1..Len(plugin_stack) : name \in DOMAIN plugin_stack[i].params }
Innermost(holders) == CHOOSE i \in holders : \A j \in holders : j <= i

\* C22: %%name%% is written as the value the innermost open plugin with a
\* parameter called name gives it, without a warning; with no such plugin
\* username, email and project are written as their placeholder (the project
\* name when there is one) with one warning, and any other name is written
\* back as it was, without a warning.
C22_VariablePriority ==
  [][ ( IsMatch(events', "Variable") /\ ~events'[1].raw )
        => IF Holders(conv.plugin_stack, events'[1].arg) # {}
           THEN /\ HasEscapedText(events',
                     <<conv.plugin_stack[Innermost(Holders(conv.plugin_stack,
                                                           events'[1].arg))]
                         .params[events'[1].arg]>>)
                /\ Count(events', "Warning") = 0
           ELSE IF events'[1].arg \in {"username", "email", "project"}
                THEN /\ Count(events', "Warning") = 1
                     /\ Count(events', "EscapedText") = 1
                     /\ events'[1].arg = "project" /\ conv.project # ""
                          => HasEscapedText(events', <<conv.project>>)
                ELSE /\ HasEscapedText(events', <<"%%" \o events'[1].arg \o "%%">>)
                     /\ Count(events', "Warning") = 0 ]_vars

\* The step is a call of HandleIssue (of HandleRevision).
IssueHandled == IsMatch(events', "IssueLink") /\ ~events'[1].raw
RevisionHandled == IsMatch(events', "RevisionLink") /\ ~events'[1].raw
\* The events of log that are ev, in their order.
RECURSIVE Events(_, _)
Events(log, ev) ==
  IF log = <<>> THEN <<>>
  ELSE (IF Head(log).ev = ev THEN <<Head(log)>> ELSE <<>>) \o Events(Tail(log), ev)
\* The one link of the step has this target and this description.
LinksTo(log, target, description) ==
  /\ Count(log, "Link") = 1
  /\ Events(log, "Link")[1].target = target
  /\ Events(log, "Link")[1].description = description
\* The step writes this text and no link.
WritesLiteral(log, text) ==
  /\ Count(log, "Link") = 0
  /\ Count(log, "Write") = 1
  /\ Events(log, "Write")[1].text = text
AutoLinkWarnings(log) ==
  { i \in 1..Len(log) : log[i].ev = "Warning"
       /\ log[i].what \in { "Issue was auto-linked: linked to the migrated issue",
                            "Issue was auto-linked: not found in the issue migration map",
                            "Issue was auto-linked: no issue migration map was specified",
                            "Revision was auto-linked" } }

\* C23: HandleIssue gives one "was auto-linked" warning, which names the case,
\* and one rendering: a link to the mapped URL, its text the prefix and the
\* migrated number, when the number is in the issue map; else a link to the
\* legacy tracker of the project when there is a project; else the literal
\* text "<prefix><number> (on Google Code)".  HandleRevision does the same
\* with the project alone, whatever the issue map.
C23_IssueAndRevisionFallback ==
  [][ /\ IssueHandled =>
           LET call == Events(events', "Issue")[1]
           IN /\ Cardinality(AutoLinkWarnings(events')) = 1
              /\ IF call.issue \in DOMAIN fmt.issue_map
                 THEN /\ LinksTo(events', fmt.issue_map[call.issue],
                                 call.prefix \o <<"9">>)
                      /\ HasWarning(events', "Issue was auto-linked: linked to the migrated issue")
                 ELSE /\ IF fmt.project # ""
                         THEN LinksTo(events', OldIssueLink(fmt.project, call.issue),
                                      call.prefix \o call.issue)
                         ELSE WritesLiteral(events',
                                call.prefix \o call.issue \o <<" (on Google Code)">>)
                      /\ HasWarning(events',
                           IF DOMAIN fmt.issue_map # {}
                           THEN "Issue was auto-linked: not found in the issue migration map"
                           ELSE "Issue was auto-linked: no issue migration map was specified")
      /\ RevisionHandled =>
           LET call == Events(events', "Revision")[1]
           IN /\ Cardinality(AutoLinkWarnings(events')) = 1
              /\ HasWarning(events', "Revision was auto-linked")
              /\ IF fmt.project # ""
                 THEN LinksTo(events', OldRevisionLink(fmt.project, call.revision),
                              call.prefix \o call.revision)
                 ELSE WritesLiteral(events',
                        call.prefix \o call.revision \o <<" (on Google Code)">>) ]_vars

\* An issue of the map has been linked, within HTML, to its migrated issue.
C23_Witness ==
  /\ events # <<>> /\ events[1].ev = "Match" /\ events[1].rule = "IssueLink"
  /\ ~events[1].raw
  /\ fmt.in_html # 0
  /\ HasWarning(events, "Issue was auto-linked: linked to the migrated issue")

\* The step is a call of HandleLink for a URL of the document, in Markdown.
MarkdownLinkHandled ==
  /\ IsMatch(events', "Url") \/ IsMatch(events', "UrlBracket")
  /\ ~events'[1].raw
  /\ fmt.in_html = 0
\* What C24 has HandleLink write for a target and a description.
ClaimedLink(target, description) ==
  IF ~IsTrue(description) /\ Head(target) \in {"http://", "https://"} /\ ~IsImage(target)
  THEN target
  ELSE IF ~IsTrue(description) /\ IsImage(target)
  THEN <<"!", "[">> \o target \o <<"](">> \o target \o <<")">>
  ELSE <<"[">>
         \o (IF IsImageDescription(description) THEN <<"![](">> \o description \o <<")">>
             ELSE IF IsTrue(description) THEN _Escape(description)
             ELSE target)
         \o <<"](">> \o target \o <<")">>

\* C24: in Markdown HandleLink writes the bare URL iff there is no description,
\* the schema is http or https and the target is no image; the inline image
\* "![url](url)" iff the target is an image and there is no description; and
\* in every other case the link "[description](url)", a description that is
\* an image URL being written as "![](description)" inside the link.  Only an
\* image target without a description gives an image and no link.
C24_MarkdownLinkCases ==
  [][ MarkdownLinkHandled
        => /\ Count(events', "Write") = 1
           /\ Events(events', "Write")[1].text
                = ClaimedLink(Events(events', "Link")[1].target,
                              Events(events', "Link")[1].description) ]_vars

\* C24 for the links that have no description or one that is not empty.
C24_LinksWithTextOrNone ==
  [][ ( MarkdownLinkHandled /\ Events(events', "Link")[1].description # <<>> )
        => /\ Count(events', "Write") = 1
           /\ Events(events', "Write")[1].text
                = ClaimedLink(Events(events', "Link")[1].target,
                              Events(events', "Link")[1].description) ]_vars

\* The "=" a heading line starts with.
LeadingEquals(match) ==
  CHOOSE n \in 0..Len(match) :
    /\ \A i \in 1..n : match[i] = "="
    /\ n = Len(match) \/ match[n + 1] # "="
HashesAfterSpace(level) == <<" ">> \o [i \in 1..level |-> "#"]

\* C25: the level of a heading is the number of "=" the line starts with,
\* whatever the number at its end.  For a level of 1 to 6 the header is opened
\* with that level before the heading text is dispatched and closed with the
\* same level after it; for a higher level neither is done and the text is
\* dispatched all the same.  In Markdown the close writes " " and level "#"
\* iff symmetric_headers is set, and nothing otherwise.
C25_HeadingLevel ==
  [][ /\ ( IsMatch(events', "Heading") /\ ~events'[1].raw )
           => /\ pc' = "match" /\ InHeading(ctx')
              /\ IF LeadingEquals(events'[1].arg) \in 1..6
                 THEN /\ Count(events', "HeaderOpen") = 1
                      /\ Events(events', "HeaderOpen")[1].level
                           = LeadingEquals(events'[1].arg)
                      /\ Last(ctx').arg = LeadingEquals(events'[1].arg)
                 ELSE /\ Count(events', "HeaderOpen") = 0
                      /\ Last(ctx').arg = 0
      /\ ( events' # <<>> /\ events'[1].ev = "Return" /\ events'[1].rule = "Heading" )
           => IF Last(ctx).arg # 0
              THEN /\ Count(events', "HeaderClose") = 1
                   /\ Events(events', "HeaderClose")[1].level = Last(ctx).arg
                   /\ fmt.in_html = 0
                        => IF fmt.symmetric_headers
                           THEN /\ Count(events', "Write") = 1
                                /\ Events(events', "Write")[1].text
                                     = HashesAfterSpace(Last(ctx).arg)
                           ELSE Count(events', "Write") = 0
              ELSE /\ Count(events', "HeaderClose") = 0
                   /\ Count(events', "Write") = 0 ]_vars

\* A heading of level 2 whose line ends with one "=" has been closed, in
\* Markdown and with symmetric headers.
C25_Witness ==
  /\ events # <<>> /\ events[1].ev = "Return" /\ events[1].rule = "Heading"
  /\ fmt.symmetric_headers /\ fmt.in_html = 0
  /\ \E i \in 1..Len(events) :
       events[i].ev = "Write" /\ events[i].text = <<" ", "#", "#">>

\* A line that starts with seven "=" has had its text dispatched without a
\* header.
C25_WitnessTooDeep ==
  /\ events # <<>> /\ events[1].ev = "Return" /\ events[1].rule = "Heading"
  /\ Count(events, "HeaderClose") = 0

\* The step is _ProcessLine for a line that is indented and starts with a
\* numeric or bullet list symbol.
ListSymbolLine ==
  /\ events' # <<>> /\ events'[1].ev = "Line" /\ events'[1].kind = "text"
  /\ events'[1].sh.indent_pos > 0
  /\ events'[1].sh.list_type # "blockquote"

\* C26: on an indented line that starts with a numeric or bullet list symbol
\* the symbol and the one character after it are removed, with the warning
\* "Missing space after list symbol" iff that character is no space; this is
\* so for every such line, the one that ends with its list symbol included.
C26_ListSymbolRemoved ==
  [][ ListSymbolLine
        => /\ Count(events', "Exception") = 0
           /\ pc' # "crashed"
           /\ HasWarning(events', "Missing space after list symbol")
                <=> events'[1].sh.after # "space" ]_vars

\* The urls whose video id is made of letters, digits, "_" and "-" only.
UrlsWithVideoId == { "http://youtube.com/watch?v=abc", "http://youtube.com/v/abc" }
CANNOT_FIND_ID ==
  <<"\n", "\n", "wiki:video: cannot find YouTube video id within parameter \"url\".",
    "\n", "\n">>
MISSING_URL ==
  <<"\n", "\n", "wiki:video: missing mandatory parameter \"url\".", "\n", "\n">>
\* What C27 has a wiki:video tag with these parameters do.
VideoRendering(log, params) ==
  /\ Count(log, "Warning") = 1 + Cardinality(DOMAIN params \ {"url", "width", "height"})
  /\ Count(log, "VideoOpen") + Count(log, "EscapedText") = 1
  /\ IF "url" \notin DOMAIN params
     THEN /\ HasEscapedText(log, MISSING_URL)
          /\ HasWarning(log, "Video plugin is missing 'url' parameter")
     ELSE IF params["url"] \in UrlsWithVideoId
     THEN /\ Count(log, "VideoOpen") = 1
          /\ Events(log, "VideoOpen")[1].video_id = "abc"
          /\ HasWarning(log, "image link to the video is used")
     ELSE /\ HasEscapedText(log, CANNOT_FIND_ID)
          /\ HasWarning(log, "Video plugin has invalid video ID")

\* C27: a wiki:video tag gives one of three renderings, each with its one
\* warning next to the warnings for dropped parameters: the thumbnail link
\* when the url has a valid video id, the text "cannot find YouTube video id"
\* when the id is missing or invalid, the text "missing mandatory parameter"
\* when there is no url.  No thumbnail link is written for an invalid id.
C27_VideoRenderings ==
  [][ \A params \in VideoParams :
        ( /\ ~_ConsumeTextForPlugin(conv)
          /\ Plugin(<<"wiki", "video">>, params, TRUE) )
          => VideoRendering(events', params) ]_vars

\* The writes of a step's log, read from a state st ("in" a comment or "out"):
\* text written in a comment has no single quote, text handed to HandleText
\* there is written with each single quote as a double quote, and the texts
\* that open and close the comment are written as they are.
RECURSIVE CommentWrites(_, _)
CommentWrites(log, st) ==
  IF log = <<>> THEN TRUE
  ELSE CASE Head(log).ev = "CommentOpen" -> CommentWrites(Tail(log), "open")
         [] Head(log).ev = "CommentClose" -> CommentWrites(Tail(log), "close")
         [] Head(log).ev = "Text" /\ st = "in" ->
              /\ Len(log) > 1 /\ log[2].ev = "Write"
              /\ log[2].text = [i \in 1..Len(Head(log).text) |->
                                  IF Head(log).text[i] = "'" THEN "\""
                                  ELSE Head(log).text[i]]
              /\ CommentWrites(Tail(log), st)
         [] Head(log).ev = "Write" /\ st = "open" ->
              /\ Head(log).text = <<"<", "a href=", "'", "Hidden comment: ">>
              /\ CommentWrites(Tail(log), "in")
         [] Head(log).ev = "Write" /\ st = "close" ->
              /\ Head(log).text = <<"'", ">", "</", "a", ">">>
              /\ CommentWrites(Tail(log), "out")
         [] Head(log).ev = "Write" /\ st = "in" ->
              /\ \A i \in 1..Len(Head(log).text) : Head(log).text[i] # "'"
              /\ CommentWrites(Tail(log), st)
         [] OTHER -> CommentWrites(Tail(log), st)

\* C28: between HandleCommentOpen and HandleCommentClose every text is written
\* with each single quote replaced by a double quote, in Markdown and within
\* HTML, so that the href value of the comment has no single quote; the
\* closing text of the comment is written as it is.
C28_NoSingleQuoteInComment ==
  [][ CommentWrites(events', IF fmt.in_comment THEN "in" ELSE "out") ]_vars

\* A single quote has been written as a double quote in a comment that is
\* inside an HTML tag.
C28_Witness ==
  /\ fmt.in_comment /\ fmt.in_html # 0
  /\ \E i \in 1..Len(events) : events[i].ev = "Text" /\ events[i].text = <<"'">>
  /\ \E i \in 1..Len(events) : events[i].ev = "Write" /\ events[i].text = <<"\"">>

\* The same in Markdown, and the comment has been closed.
C28_WitnessClosed ==
  /\ ~fmt.in_comment /\ fmt.in_html = 0
  /\ Count(events, "CommentClose") = 1

\* code has n ticks in a row somewhere.
HasRun(code, n) ==
  \E i \in 1..(Len(code) - n + 1) : \A j \in i..(i + n - 1) : code[j] = Tick
LongestRun(code) == CHOOSE n \in 0..Len(code) : HasRun(code, n) /\ ~HasRun(code, n + 1)
Fence(n) == [i \in 1..n |-> Tick]

\* C29: in Markdown HandleInlineCode writes, on both sides of the code, a
\* fence that is one tick longer than the longest run of ticks of the code, so
\* that the code has no run of ticks as long as the fence.
C29_FenceOneLongerThanLongestRun ==
  [][ ( IsMatch(events', "InlineCode") /\ ~events'[1].raw /\ fmt.in_html = 0 )
        => /\ Count(events', "Write") = 1
           /\ Events(events', "Write")[1].text
                = Fence(LongestRun(events'[1].arg) + 1) \o <<" ">> \o events'[1].arg
                    \o <<" ">> \o Fence(LongestRun(events'[1].arg) + 1)
           /\ ~HasRun(events'[1].arg, LongestRun(events'[1].arg) + 1) ]_vars

\* A code with two runs of ticks, the longer of two ticks, has been written
\* with fences of three ticks.
C29_Witness ==
  /\ IsMatch(events, "InlineCode") /\ ~events[1].raw
  /\ events[1].arg = <<Tick, "x", Tick, Tick>>
  /\ \E i \in 1..Len(events) :
       /\ events[i].ev = "Write"
       /\ SubSeq(events[i].text, 1, 4) = <<Tick, Tick, Tick, " ">>

\* The text a log sent to the output stream.
RECURSIVE StreamText(_)
StreamText(log) ==
  IF log = <<>> THEN <<>>
  ELSE (IF Head(log).ev = "Write" /\ Head(log).to = "stream" THEN Head(log).text ELSE <<>>)
         \o StreamText(Tail(log))
\* The lines of a document, one after the other.
RECURSIVE Joined(_)
Joined(lines) == IF lines = <<>> THEN <<>> ELSE Head(lines) \o Joined(Tail(lines))
\* The Markdown-escaped form of a text that has no plugin-shaped part.
Escaped(text) ==
  [i \in 1..Len(text) |-> IF text[i] \in {"*", "_"} THEN "\\" \o text[i] ELSE text[i]]
\* The lines from the first that is not blank on, each without the white
\* space around it, with a newline between two of them.
RECURSIVE FromFirstText(_)
FromFirstText(lines) ==
  IF lines # <<>> /\ \A i \in 1..Len(Head(lines)) : Head(lines)[i] \in {" ", "  ", "\n"}
  THEN FromFirstText(Tail(lines)) ELSE lines
RECURSIVE JoinedStripped(_)
JoinedStripped(lines) ==
  IF lines = <<>> THEN <<>>
  ELSE Strip(Head(lines))
         \o (IF Len(lines) > 1 THEN <<"\n">> ELSE <<>>) \o JoinedStripped(Tail(lines))

\* C30 as stated: for a document without markup the output of Convert is the
\* Markdown-escaped input, "*" and "_" with a backslash before them, and
\* nothing else is added, removed or changed.
C30_OutputIsEscapedInput ==
  pc = "returned" => Flat(StreamText(events)) = Flat(Escaped(Joined(input_lines)))

\* C30, amended: for a document without markup and without indentation the
\* output of Convert is the Markdown-escaped text of its lines from the first
\* non-blank line on, each line without the white space around it, with one
\* newline between two lines; the newline that ends the document is not
\* written.
C30_OutputIsEscapedStrippedLines ==
  pc = "returned"
    => Flat(StreamText(events)) = Flat(Escaped(JoinedStripped(FromFirstText(input_lines))))

\* Convert has returned from a document of three lines, a blank one first and
\* one with a "*", and has written the "*" with a backslash.
C30_Witness ==
  /\ pc = "returned"
  /\ Len(input_lines) = 3
  /\ input_lines[1] = <<"\n">>
  /\ input_lines[2] = <<"a", "*", "b", "\n">>
  /\ \E i \in 1..Len(events) :
       /\ events[i].ev = "Write"
       /\ \E j \in 1..Len(events[i].text) : events[i].text[j] = "\\*"

(***************************************************************************)
(* Claims about the end of formatting and about HTML mode.                 *)
(***************************************************************************)
\* No span is open on m and no format buffer is left.
AllClosed(m) == m.c.open_tags = <<>> /\ m.f.format_buffer = <<>>

\* C31: _CloseTags closes all open spans: called in any state the conversion
\* reaches, with zero to three spans open, it returns with _open_tags and the
\* format-buffer stack empty.
C31_CloseTagsClosesAll ==
  pc \in {"body", "match", "eol"} => AllClosed(_CloseTags(Machine))

\* C32: when the body of the document has been processed and Convert is about
\* to return, no text is left in a format buffer: all that was written
\* through the handler has reached the output stream, also when a span was
\* opened and never closed.
C32_NoTextLeftInBuffer ==
  pc = "done" => \A i \in 1..Len(fmt.format_buffer) : fmt.format_buffer[i].text = <<>>

\* The close tags of log each name the last tag of the unclosed tags, stack
\* being the unclosed tags before log.
RECURSIVE NestedFrom(_, _)
NestedFrom(stack, log) ==
  \/ log = <<>>
  \/ /\ Head(log).ev = "HtmlClose" => (stack # <<>> /\ Last(stack) = Head(log).tag)
     /\ NestedFrom(WrittenTags(stack, <<Head(log)>>), Tail(log))

\* C33: the HTML tags written are well nested: every close tag written by
\* HandleHtmlClose names the most recently written open tag that is still
\* unclosed.
C33_HtmlTagsWellNested == [][NestedFrom(html_tags, events')]_vars

\* C34: whenever HandleListClose runs in HTML mode the stack of HTML list
\* tags is not empty: the list being closed was opened in HTML mode, so the
\* look-up of the top entry of _list_tags never fails.
C34_ListClosedInHtmlWasOpenedInHtml ==
  \A i \in 1..Len(events) :
    events[i].ev = "Exception" => events[i].what # "IndexError: _list_tags[-1]"

\* C35: whenever a cell of a body row is processed its column lies within
\* the recorded header columns (_table_column - 1 < len(_table_columns)), so
\* the look-up of the header width never fails.
C35_BodyCellWithinHeaderColumns ==
  \A i \in 1..Len(events) :
    events[i].ev = "Exception"
      => events[i].what # "IndexError: _table_columns[_table_column - 1]"

(***************************************************************************)
(* Claims about the issue references.                                      *)
(***************************************************************************)
\* The run of digits a match ends with, one character a chunk.
RECURSIVE DigitsOf(_)
DigitsOf(match) ==
  IF match # <<>> /\ Last(match) \in {"0", "1", "2", "3", "4", "5", "6", "7", "8", "9"}
  THEN Append(DigitsOf(Front(match)), Last(match))
  ELSE <<>>

\* C36: for every match of the IssueLink rule handled by _HandleIssueLink,
\* HandleIssue receives as issue the full run of digits of the match and as
\* prefix the text such that prefix followed by the digits is the match.
C36_IssueIsDigitsOfMatch ==
  (events # <<>> /\ IsMatch(events, "IssueLink") /\ ~events[1].raw)
    => \E i \in 1..Len(events) :
         /\ events[i].ev = "Issue"
         /\ events[i].issue = DigitsOf(events[1].arg)
         /\ events[i].prefix \o events[i].issue = events[1].arg

(***************************************************************************)
(* Claims about the issue exporter.                                        *)
(***************************************************************************)
\* The requests of the call that count toward MAX_HTTP_REQUESTS.
CountedAttempts == http.attempts - http.limited

IsPresent(issue) == issue.title \in DOMAIN exporter.previously_created_issues
\* The issues among the first n of the export file that were posted before,
\* and the others.
PresentAmong(n) ==
  { i \in 1..n : IsPresent(exporter.issue_json_data[i]) }
NewAmong(n) == (1..n) \ PresentAmong(n)
\* The comments of an issue that are not deleted, the description left out.
LiveComments(issue) ==
  LET all == [i \in 1..(Len(issue.items) - 1) |-> issue.items[i + 1]]
  IN SelectSeq(all, IsNotDeleted)
\* The calls claimed for the i-th issue of the export file.
ClaimedCalls(i) ==
  LET issue == exporter.issue_json_data[i]
      existing == exporter.previously_created_issues[issue.title]
      new_id == 1 + Len(exporter.open_issues) + Len(exporter.closed_issues)
                  + Cardinality(NewAmong(i - 1))
  IN IF IsPresent(issue)
     THEN [k \in 1..(Len(LiveComments(issue)) - existing.comment_count) |->
             [op |-> "CreateComment", id |-> existing.id,
              comment |-> LiveComments(issue)[existing.comment_count + k]]]
     ELSE <<[op |-> "CreateIssue", issue |-> issue]>>
            \o [k \in 1..Len(LiveComments(issue)) |->
                  [op |-> "CreateComment", id |-> new_id,
                   comment |-> LiveComments(issue)[k]]]
            \o (IF "state" \in DOMAIN issue /\ issue.state = "open" THEN <<>>
                ELSE <<[op |-> "CloseIssue", id |-> new_id]>>)
RECURSIVE ClaimedCallsUpTo(_)
ClaimedCallsUpTo(n) ==
  IF n = 0 THEN <<>> ELSE ClaimedCallsUpTo(n - 1) \o ClaimedCalls(n)

====
